---------------------------- MODULE Spec2Model ----------------------------
(***************************************************************************)
(* Job orchestration and log streaming of infinito-deployer:               *)
(*   apps/api/services/job_runner/{service,runner,log_hub,secrets,util,    *)
(*   persistence}.py and apps/api/api/routes/deployments.py.               *)
(*                                                                         *)
(* Spec       the Job Controller: create, the process, cancel and the      *)
(*            background finalizer of a job, with job.json written through *)
(*            job.json.tmp as atomic_write_text does it.                   *)
(* SpecFault  Spec plus a raising wait/join inside the finalizer.          *)
(* SpecHub    the Log Hub on its own: a publisher, subscribers, consumers. *)
(* SpecReader create, the process writing any text, the reader thread that *)
(*            masks it into job.log, the finalizer.                        *)
(* SpecStream a job whose process writes numbered lines, the reader, the   *)
(*            hub, the finalizer and a connection streaming the log.       *)
(* SpecGet    Spec plus get, the snapshot of a job read from job.json.     *)
(* SpecPair   two jobs side by side, each published to and streamed, one   *)
(*            of them ending while the other goes on running.              *)
(* SpecRestart a job, get, and a second controller constructed over the    *)
(*            same jobs root.                                              *)
(* SpecContainer build_container_command over some configurations.         *)
(* SpecSplit  split_stream_buffer and split_log_lines over short buffers.  *)
(* SpecMask   create with any request, the process writing any text, the   *)
(*            reader, the hub with a subscriber, the close of job.log.     *)
(* SpecLive   Spec with the finalizer thread and a cancel call in progress *)
(*            scheduled fairly.                                            *)
(* SpecStreamLive SpecStream with the loop of the connection scheduled     *)
(*            fairly.                                                      *)
(* SpecBeat   the clock of one stream and its keep-alive comments.         *)
(* SpecChunks the reader loop over a process output read in chunks.        *)
(* SpecUnsubscribe SpecHub plus unsubscribe called with any job and queue.  *)
(* SpecMaskFn mask_secrets applied to texts with two nested secrets, with  *)
(*            one secret, and to token-shaped texts without a secret.      *)
(* SpecPublishers the Log Hub with several threads inside publish.         *)
(***************************************************************************)
EXTENDS Integers, Sequences, FiniteSets, TLC

\* ------------------------------------------------------------------ bounds

\* Number of cancel calls made on one job.
MaxCancels == 2

\* Lines published to the hub.
MaxLines == 4

\* LogHub(buffer_size=200), scaled down.
BufferSize == 2

\* queue.Queue(maxsize=1000), scaled down.
QueueMaxSize == 2

\* Characters a process writes.
MaxOut == 3

\* Lines a process writes when it writes whole lines.
StreamLines == 2

\* Cancel calls made on one of two jobs running side by side.
PairCancels == 1

\* Lines published to the hub for each of two jobs running side by side.
PairLines == 1

\* Characters of a buffer handed to the line splitters.
MaxSplitLen == 5

\* Controllers constructed over the jobs root after the first.
MaxRestarts == 1

\* Bytes of a process output handed to the reader loop in chunks.
MaxReadLen == 4

\* Characters of the longer of two secrets handed to mask_secrets.
MaxSecretLen == 2

\* Threads that are inside LogHub.publish for one job at the same time.
MaxPublishers == 2

\* Calls of LogHub.publish made by those threads.
MaxCalls == 3

\* Characters by which the longest token run handed to mask_secrets exceeds
\* TokenMinLen.
MaxRunExtra == 1

\* Seconds of time.monotonic() a stream is followed for.
MaxBeatTime == 24

\* Whole seconds that pass at most between two ticks of a stream (the sleep
\* of 0.2 s and the time its yields take).
MaxTick == 2

\* time.monotonic() - last_heartbeat >= 10 (deployments.py:207).
HeartbeatSeconds == 10

\* Sleeps of 0.2 s after which the 0.5 s grace period is certainly over
\* (deployments.py:186, 211).
GraceTicks == 3

\* ------------------------------------------------------------------ values

\* Optional[...] fields: None is the empty tuple, a value v is <<v>>.
None == <<>>
Some(v) == <<v>>

\* Job ids (uuid4().hex[:12], service.py:86): opaque, pairwise distinct.
JobIds == {"j1", "j2"}
\* The jobs the controller specification creates.
SpecJobs == {"j1"}

\* api/routes/deployments.py:24 and the literal at service.py:240.
TERMINAL_STATUSES == {"succeeded", "failed", "canceled"}

\* Exit codes of the runner process: success, failure, killed by SIGTERM.
ExitCodes == {0, 1, -15}

\* The two threads that write job.json while others may be writing it.
Writers == {"cancel", "fin"}

\* --------------------------------------------------------------- text (1)
\* A text is a sequence of one-character strings.

LF == "\n"
CR == "\r"
SP == " "
TAB == "\t"
FF == "\f"
Whitespace == {LF, CR, SP, TAB, FF}

Min(a, b) == IF a < b THEN a ELSE b

\* A reader thread that was not started; a job.log that was not created.
AllOutChars == {"p", "q", "k", "l", LF, "x"}

NoReader == [pc |-> "none", buf |-> <<>>, lines |-> <<>>, masked |-> <<>>]

NoLog == [exists |-> FALSE, text |-> <<>>]

\* str.find(c) + 1: the index of the first c in s, 0 when there is none.
RECURSIVE FindFrom(_, _, _)
FindFrom(s, c, i) ==
    IF i > Len(s) THEN 0
    ELSE IF s[i] = c THEN i
    ELSE FindFrom(s, c, i + 1)

Find(s, c) == FindFrom(s, c, 1)

\* str.lstrip() / str.rstrip() / str.strip() on whitespace.
RECURSIVE LStrip(_)
LStrip(s) ==
    IF s # <<>> /\ Head(s) \in Whitespace THEN LStrip(Tail(s)) ELSE s

RECURSIVE RStrip(_)
RStrip(s) ==
    IF s # <<>> /\ s[Len(s)] \in Whitespace
    THEN RStrip(SubSeq(s, 1, Len(s) - 1))
    ELSE s

Strip(s) == RStrip(LStrip(s))

\* str.splitlines(): breaks at LF, CR, CR LF and FF; no empty last line.
RECURSIVE SplitLinesFrom(_, _)
SplitLinesFrom(s, cur) ==
    IF s = <<>> THEN (IF cur = <<>> THEN <<>> ELSE <<cur>>)
    ELSE IF Head(s) = CR /\ Len(s) >= 2 /\ s[2] = LF
         THEN <<cur>> \o SplitLinesFrom(Tail(Tail(s)), <<>>)
    ELSE IF Head(s) \in {LF, CR, FF}
         THEN <<cur>> \o SplitLinesFrom(Tail(s), <<>>)
    ELSE SplitLinesFrom(Tail(s), Append(cur, Head(s)))

SplitLines(s) == SplitLinesFrom(s, <<>>)

\* sub occurs in text at position i (1-based).
OccursAt(text, sub, i) ==
    /\ i >= 1
    /\ i + Len(sub) - 1 <= Len(text)
    /\ SubSeq(text, i, i + Len(sub) - 1) = sub

\* Python's `sub in text`.
Contains(text, sub) ==
    \E i \in 1..(Len(text) + 1) : OccursAt(text, sub, i)

\* secrets._dedupe: first occurrences, in order.
RECURSIVE DedupeFrom(_, _)
DedupeFrom(items, out) ==
    IF items = <<>> THEN out
    ELSE IF \E i \in 1..Len(out) : out[i] = Head(items)
         THEN DedupeFrom(Tail(items), out)
         ELSE DedupeFrom(Tail(items), Append(out, Head(items)))

Dedupe(items) == DedupeFrom(items, <<>>)

\* The stripped non-blank lines of a private key (secrets.py:66-69).
RECURSIVE KeyLines(_)
KeyLines(lines) ==
    IF lines = <<>> THEN <<>>
    ELSE LET s == Strip(Head(lines))
         IN  (IF s # <<>> THEN <<s>> ELSE <<>>) \o KeyLines(Tail(lines))

\* secrets.collect_secrets: password, private key, its lines; deduplicated.
\* (DeploymentAuth declares no passphrase field.)
collect_secrets(req) ==
    Dedupe(
        (IF req.password # <<>> THEN <<req.password>> ELSE <<>>)
        \o (IF req.private_key # <<>>
            THEN <<req.private_key>> \o KeyLines(SplitLines(req.private_key))
            ELSE <<>>))

\* ------------------------------------------------------------ masking
\* secrets.py:8
MASK == <<"*", "*", "*", "*", "*", "*", "*", "*">>

LowerCaseChars == <<"a", "b", "c", "d", "e", "f", "g", "h", "i", "j", "k", "l", "m", "n", "o", "p", "q", "r", "s", "t", "u", "v", "w", "x", "y", "z">>

UpperCaseChars == <<"A", "B", "C", "D", "E", "F", "G", "H", "I", "J", "K", "L", "M", "N", "O", "P", "Q", "R", "S", "T", "U", "V", "W", "X", "Y", "Z">>

DigitSet == {"0", "1", "2", "3", "4", "5", "6", "7", "8", "9"}

IsUpper(c) == \E i \in 1..26 : UpperCaseChars[i] = c

IsLetter(c) == IsUpper(c) \/ \E i \in 1..26 : LowerCaseChars[i] = c

\* [A-Za-z0-9_-]
IsTokenChar(c) == IsLetter(c) \/ c \in DigitSet \/ c \in {"_", "-"}

\* (?i): letters compare by their lower case.
ToLower(c) ==
    IF IsUpper(c)
    THEN LowerCaseChars[CHOOSE i \in 1..26 : UpperCaseChars[i] = c]
    ELSE c

\* The literal lit (in lower case) matches text at i, ignoring case.
MatchLitCI(text, i, lit) ==
    /\ i >= 1
    /\ i + Len(lit) - 1 <= Len(text)
    /\ \A n \in 1..Len(lit) : ToLower(text[i + n - 1]) = lit[n]

\* The end of the greedy runs \s*, [^\s]+, [A-Za-z0-9_-]+ and [A-Z ]* that
\* start at i: the index of the first character outside the class.
RECURSIVE SkipSpace(_, _)
SkipSpace(text, i) ==
    IF i <= Len(text) /\ text[i] \in Whitespace
    THEN SkipSpace(text, i + 1) ELSE i

RECURSIVE SkipNonSpace(_, _)
SkipNonSpace(text, i) ==
    IF i <= Len(text) /\ text[i] \notin Whitespace
    THEN SkipNonSpace(text, i + 1) ELSE i

RECURSIVE SkipToken(_, _)
SkipToken(text, i) ==
    IF i <= Len(text) /\ IsTokenChar(text[i])
    THEN SkipToken(text, i + 1) ELSE i

RECURSIVE SkipUpperOrSpace(_, _)
SkipUpperOrSpace(text, i) ==
    IF i <= Len(text) /\ (IsUpper(text[i]) \/ text[i] = SP)
    THEN SkipUpperOrSpace(text, i + 1) ELSE i

\* str.replace(sub, rep): the occurrences of sub from the left, not
\* overlapping; sub is not empty.
RECURSIVE ReplaceFrom(_, _, _, _)
ReplaceFrom(text, sub, rep, i) ==
    IF i > Len(text) THEN <<>>
    ELSE IF OccursAt(text, sub, i)
         THEN rep \o ReplaceFrom(text, sub, rep, i + Len(sub))
         ELSE <<text[i]>> \o ReplaceFrom(text, sub, rep, i + 1)

Replace(text, sub, rep) == ReplaceFrom(text, sub, rep, 1)

\* secrets.py:93-97 for one iteration order of the secrets.
RECURSIVE ReplaceSecrets(_, _)
ReplaceSecrets(text, order) ==
    IF order = <<>> THEN text
    ELSE ReplaceSecrets(Replace(text, Head(order), MASK), Tail(order))

\* sorted(secret_set, key=len, reverse=True): longest first; secrets of one
\* length come in the set's iteration order, which is any order.
SortedLongestFirst(secret_set) ==
    LET n == Cardinality(secret_set)
    IN  { o \in [1..n -> secret_set] :
            /\ \A a, b \in 1..n : a # b => o[a] # o[b]
            /\ \A a, b \in 1..n : a < b => Len(o[a]) >= Len(o[b]) }

\* secrets.py:37-40, _PRIVATE_KEY_BLOCK: the index after
\* "-----<word> [A-Z ]*PRIVATE KEY-----" matched at i, 0 when no match.
PemMarkerEnd(text, i, word) ==
    LET head == <<"-", "-", "-", "-", "-">> \o word \o <<SP>>
        s    == i + Len(head)
        e    == SkipUpperOrSpace(text, s)
    IN  IF /\ OccursAt(text, head, i)
           /\ e - s >= Len(<<"P", "R", "I", "V", "A", "T", "E", " ", "K", "E", "Y">>)
           /\ OccursAt(text, <<"P", "R", "I", "V", "A", "T", "E", " ", "K", "E", "Y">>, e - Len(<<"P", "R", "I", "V", "A", "T", "E", " ", "K", "E", "Y">>))
           /\ OccursAt(text, <<"-", "-", "-", "-", "-">>, e)
        THEN e + 5 ELSE 0

\* The index after the first END marker at or after i (.*? is lazy), 0 when
\* there is none.
RECURSIVE PemBlockEnd(_, _)
PemBlockEnd(text, i) ==
    IF i > Len(text) THEN 0
    ELSE IF PemMarkerEnd(text, i, <<"E", "N", "D">>) # 0
         THEN PemMarkerEnd(text, i, <<"E", "N", "D">>)
         ELSE PemBlockEnd(text, i + 1)

\* secrets.py:99-100: _PRIVATE_KEY_BLOCK.sub(MASK, redacted).
RECURSIVE PrivateKeyBlockSub(_, _)
PrivateKeyBlockSub(text, i) ==
    IF i > Len(text) THEN <<>>
    ELSE LET b == PemMarkerEnd(text, i, <<"B", "E", "G", "I", "N">>)
             e == IF b = 0 THEN 0 ELSE PemBlockEnd(text, b)
         IN  IF e # 0
             THEN MASK \o PrivateKeyBlockSub(text, e)
             ELSE <<text[i]>> \o PrivateKeyBlockSub(text, i + 1)

\* secrets.py:25, the keywords of the first inline pattern.
InlineKeywords ==
    { <<"p", "a", "s", "s", "w", "o", "r", "d">>,
      <<"p", "a", "s", "s", "w", "d">>,
      <<"p", "a", "s", "s", "p", "h", "r", "a", "s", "e">>,
      <<"s", "e", "c", "r", "e", "t">>,
      <<"t", "o", "k", "e", "n">>,
      <<"a", "p", "i", "k", "e", "y">>,
      <<"a", "p", "i", "_", "k", "e", "y">>,
      <<"a", "c", "c", "e", "s", "s", "_", "k", "e", "y">>,
      <<"p", "r", "i", "v", "a", "t", "e", "_", "k", "e", "y">> }

\* One of _INLINE_VALUE_PATTERNS (secrets.py:23-30) matched at i: the pair
\* <<start of group 2, index after group 2>>, <<0, 0>> when no match.
\*   1: keyword \s* [:=] \s* value      2: sshpass \s+ -p \s+ value
\*   3: --password \s+ value            4: --token \s+ value
SpacesThenValue(text, i) ==
    LET v == SkipSpace(text, i)
        e == SkipNonSpace(text, v)
    IN  IF v > i /\ e > v THEN <<v, e>> ELSE <<0, 0>>

InlineMatch(text, i, pattern) ==
    CASE pattern = 1 ->
           IF \E kw \in InlineKeywords : MatchLitCI(text, i, kw)
           THEN LET kw == CHOOSE k \in InlineKeywords : MatchLitCI(text, i, k)
                    c  == SkipSpace(text, i + Len(kw))
                    v  == SkipSpace(text, c + 1)
                    e  == SkipNonSpace(text, v)
                IN  IF c <= Len(text) /\ text[c] \in {":", "="} /\ e > v
                    THEN <<v, e>> ELSE <<0, 0>>
           ELSE <<0, 0>>
      [] pattern = 2 ->
           LET d == SkipSpace(text, i + 7)
           IN  IF /\ MatchLitCI(text, i, <<"s", "s", "h", "p", "a", "s", "s">>)
                  /\ d > i + 7
                  /\ MatchLitCI(text, d, <<"-", "p">>)
               THEN SpacesThenValue(text, d + 2) ELSE <<0, 0>>
      [] pattern = 3 ->
           IF MatchLitCI(text, i, <<"-", "-", "p", "a", "s", "s", "w", "o", "r", "d">>)
           THEN SpacesThenValue(text, i + 10) ELSE <<0, 0>>
      [] pattern = 4 ->
           IF MatchLitCI(text, i, <<"-", "-", "t", "o", "k", "e", "n">>)
           THEN SpacesThenValue(text, i + 7) ELSE <<0, 0>>

\* pattern.sub(lambda m: f"{m.group(1)}{MASK}", redacted), secrets.py:103.
RECURSIVE InlineSub(_, _, _)
InlineSub(text, i, pattern) ==
    IF i > Len(text) THEN <<>>
    ELSE LET m == InlineMatch(text, i, pattern)
         IN  IF m[1] # 0
             THEN SubSeq(text, i, m[1] - 1) \o MASK \o InlineSub(text, m[2], pattern)
             ELSE <<text[i]>> \o InlineSub(text, i + 1, pattern)

\* secrets.py:102-103: the four patterns, one after the other.
InlineValueSub(text) ==
    InlineSub(InlineSub(InlineSub(InlineSub(text, 1, 1), 1, 2), 1, 3), 1, 4)

\* secrets.py:35, _JWT_VALUE.match: three runs of token characters joined by
\* dots, from the start to the end ($ also matches before a last line feed).
JwtValueMatch(text) ==
    LET a == SkipToken(text, 1)
        b == SkipToken(text, a + 1)
        c == SkipToken(text, b + 1)
    IN  /\ a > 1 /\ a <= Len(text) /\ text[a] = "."
        /\ b > a + 1 /\ b <= Len(text) /\ text[b] = "."
        /\ c > b + 1
        /\ \/ c = Len(text) + 1
           \/ c = Len(text) /\ text[c] = LF

\* secrets.py:32-34, _TOKEN_VALUE.sub: every maximal run of token characters
\* that is at least TokenMinLen long and has a letter and a digit.
TokenMinLen == 20

\* The token pattern anchored at both ends of the text.
TokenValueWhole(text, i) ==
    IF /\ Len(text) >= TokenMinLen
       /\ \A n \in 1..Len(text) : IsTokenChar(text[n])
       /\ \E n \in 1..Len(text) : IsLetter(text[n])
       /\ \E n \in 1..Len(text) : text[n] \in DigitSet
    THEN MASK ELSE text

RECURSIVE TokenValueSub(_, _)
TokenValueSub(text, i) ==
    IF i > Len(text) THEN <<>>
    ELSE IF IsTokenChar(text[i])
         THEN LET e == SkipToken(text, i)
                  run == SubSeq(text, i, e - 1)
              IN  (IF /\ e - i >= TokenMinLen
                      /\ \E n \in 1..Len(run) : IsLetter(run[n])
                      /\ \E n \in 1..Len(run) : run[n] \in DigitSet
                   THEN MASK ELSE run) \o TokenValueSub(text, e)
         ELSE <<text[i]>> \o TokenValueSub(text, i + 1)

\* secrets.py:99-110: what follows the replacement of the known secrets.
MaskPatterns(redacted) ==
    LET r == InlineValueSub(PrivateKeyBlockSub(redacted, 1))
    IN  IF JwtValueMatch(r) THEN MASK ELSE TokenValueSub(r, 1)

\* secrets.mask_secrets (secrets.py:87-110): the set of its possible results.
mask_secrets(text, secrets) ==
    IF text = <<>> THEN {text}
    ELSE LET secret_set == {secrets[i] : i \in 1..Len(secrets)} \ {<<>>}
         IN  { MaskPatterns(ReplaceSecrets(text, o)) :
                 o \in SortedLongestFirst(secret_set) }

\* Requests the controller specification creates jobs with: password auth and
\* key auth with a two-line key (schemas/deployment.py:12-45).
Requests ==
    { [method |-> "password", password |-> <<"p">>, private_key |-> <<>>],
      [method |-> "private_key", password |-> <<>>,
       private_key |-> <<"k", LF, "l">>],
      [method |-> "password", password |-> <<"p", LF, "q">>,
       private_key |-> <<>>] }

\* No request: the job was not created.
NoRequest == [method |-> "none", password |-> <<>>, private_key |-> <<>>]

\* -------------------------------------------------------------- job.json

\* The dict load_json returns for a missing or unparsable file: {}.
NoMeta ==
    [job_id |-> None, status |-> "none", created_at |-> None,
     started_at |-> None, finished_at |-> None, pid |-> None,
     exit_code |-> None, container_id |-> None]

\* A file: absent, empty (opened with truncation, nothing written yet),
\* corrupt (bytes of two writers mixed: no JSON document) or a JSON document.
AbsentFile == [kind |-> "absent", data |-> NoMeta]
EmptyFile == [kind |-> "empty", data |-> NoMeta]
CorruptFile == [kind |-> "corrupt", data |-> NoMeta]
JsonFile(m) == [kind |-> "json", data |-> m]

\* persistence.load_json: {} unless the path is a file that parses.
load_json(f) == IF f.kind = "json" THEN f.data ELSE NoMeta

\* Length of json.dumps(value) for the values of the fields that differ
\* between two records of one job.
StatusLen(s) ==
    CASE s = "queued" -> 8
      [] s = "running" -> 9
      [] s = "succeeded" -> 11
      [] s = "failed" -> 8
      [] s = "canceled" -> 10
      [] OTHER -> 0

OptLen(v, n) == IF v = None THEN 4 ELSE n

ExitLen(v) ==
    IF v = None THEN 4
    ELSE IF v[1] < 0 THEN 3
    ELSE IF v[1] > 99 THEN 3
    ELSE 1

\* Bytes of json.dumps(m, indent=2) up to a constant shared by all records
\* that carry the eight keys create writes; a record built on {} carries
\* three keys only and is shorter than any of those.
JsonSize(m) ==
    IF m.job_id = None
    THEN 0
    ELSE 100 + StatusLen(m.status) + OptLen(m.started_at, 29)
         + OptLen(m.finished_at, 29) + ExitLen(m.exit_code)

\* A write of len(text) bytes at offset 0 of a file opened by another writer
\* too: the file is the new text when it covers what was there, and the new
\* text followed by the tail of the old one (no JSON document) otherwise.
Overlay(f, m) ==
    IF f.kind = "empty" THEN JsonFile(m)
    ELSE IF f.kind = "json" /\ JsonSize(m) >= JsonSize(f.data) THEN JsonFile(m)
    ELSE CorruptFile

IsTerminal(s) == s \in TERMINAL_STATUSES


\* ------------------------------------------------------------ controller

VARIABLES
    metaFile,     \* job.json of each job
    tmpFile,      \* job.json.tmp of each job
    wfd,          \* per writer: where the file it holds open for writing is
    statusLog,    \* history: the statuses job.json has held, in order
    keyFile,      \* id_rsa exists
    logOpen,      \* the log file handle start_process opened is open
    secretStore,  \* JobRunnerService._secret_store ( <<>> : no entry )
    createPc, createMeta,
    jobReq,       \* the request a job was created with
    proc, procRc, sigterms, stops,
    cancelPc, cancelMeta,
    cancelRets,   \* history: per cancel call, the status it loaded and its outcome
    finPc, finMeta, finRc, finErr,
    clock,        \* number of utc_iso() calls so far
    \* the Log Hub (log_hub.py)
    hubBuffers,     \* LogHub._buffers: per job, the replay deque
    hubSubscribers, \* LogHub._subscribers: per job, the registered queues
    queues,         \* the contents of each queue.Queue
    qState,         \* per queue: "free", "subscribed" or "unsubscribed"
    pub,            \* per job: the publish call in progress
    hist,           \* history: what was published, returned, delivered, dropped
    \* the runner process and the reader thread (runner.py)
    procOut,      \* per job: the output the process has yet to write
    pipe,         \* per job: bytes written to stdout and not yet read
    rd,           \* per job: the reader thread (pc, buf, lines to emit)
    logFile,      \* per job: job.log
    \* the streaming connections (deployments.py), one per queue
    gw,
    \* per controller and job id: what the last get(id) answered
    \* (service.py:203-228)
    getRes,
    \* number of controllers constructed after the first (deployments.py:27-32)
    instance,
    \* the last call of a function that reads and changes no state: its name,
    \* its arguments and its result
    fn,
    \* the clock of one event_stream and what it has emitted when
    \* (deployments.py:104-109, 133-211), in seconds of time.monotonic()
    beat,
    \* the publish calls made by threads of their own, in the order in which
    \* they took the lock of the hub (log_hub.py:16-27)
    calls

ctlVars ==
    <<metaFile, tmpFile, wfd, statusLog, keyFile, logOpen, secretStore,
      createPc, createMeta, jobReq, proc, procRc, sigterms, stops,
      cancelPc, cancelMeta, cancelRets, finPc, finMeta, finRc, finErr, clock>>

hubVars == <<hubBuffers, hubSubscribers, queues, qState, pub, hist>>

rdVars == <<procOut, pipe, rd, logFile>>

gwVars == <<gw, getRes, instance>>

fnVars == <<fn, beat, calls>>

nonCtlVars == <<hubVars, rdVars, gwVars, fnVars>>

vars == <<ctlVars, hubVars, rdVars, gwVars, fnVars>>

\* The status job.json holds (meta.get("status")), "none" when unreadable.
PersistedStatus(j) == load_json(metaFile[j]).status

\* job.json becomes f; the history records a change of status.
SetMeta(j, f) ==
    /\ metaFile' = [metaFile EXCEPT ![j] = f]
    /\ statusLog' =
         [statusLog EXCEPT ![j] =
            IF load_json(f).status # PersistedStatus(j)
            THEN Append(@, load_json(f).status)
            ELSE @]

\* util.atomic_write_text, line 22 first half: open(tmp, "w") creates the
\* file or truncates the one that is there.
TmpOpen(j, w) ==
    /\ tmpFile' = [tmpFile EXCEPT ![j] = EmptyFile]
    /\ wfd' = [wfd EXCEPT ![j][w] = "tmp"]
    /\ UNCHANGED <<metaFile, statusLog>>

\* util.atomic_write_text, line 22 second half: the text goes to the file the
\* writer opened, under whatever name that file has by now.
TmpWrite(j, w, m) ==
    /\ wfd' = [wfd EXCEPT ![j][w] = "none"]
    /\ CASE wfd[j][w] = "tmp" ->
              /\ tmpFile' = [tmpFile EXCEPT ![j] = Overlay(@, m)]
              /\ UNCHANGED <<metaFile, statusLog>>
         [] wfd[j][w] = "meta" ->
              /\ SetMeta(j, Overlay(metaFile[j], m))
              /\ UNCHANGED tmpFile
         [] OTHER ->
              UNCHANGED <<metaFile, statusLog, tmpFile>>

\* util.atomic_write_text, line 23: tmp.replace(path) renames job.json.tmp
\* over job.json; a writer that still holds the renamed file open now holds
\* job.json, one that held the replaced job.json holds an unlinked file.
TmpReplace(j, w) ==
    /\ tmpFile[j].kind # "absent"
    /\ SetMeta(j, tmpFile[j])
    /\ tmpFile' = [tmpFile EXCEPT ![j] = AbsentFile]
    /\ wfd' = [wfd EXCEPT ![j] =
                 [v \in Writers |->
                    IF v = w THEN "none"
                    ELSE IF wfd[j][v] = "tmp" THEN "meta"
                    ELSE IF wfd[j][v] = "meta" THEN "orphan"
                    ELSE wfd[j][v]]]

\* tmp.replace(path) raises FileNotFoundError: another writer's replace has
\* already renamed job.json.tmp away.
TmpReplaceRaises(j) == tmpFile[j].kind = "absent"

\* persistence.write_meta while no other thread writes the job's record
\* (inside create, before the job id is returned to anyone).
write_meta(j, m) == SetMeta(j, JsonFile(m)) /\ UNCHANGED <<tmpFile, wfd>>

CtlInit ==
    /\ metaFile = [j \in JobIds |-> AbsentFile]
    /\ tmpFile = [j \in JobIds |-> AbsentFile]
    /\ wfd = [j \in JobIds |-> [w \in Writers |-> "none"]]
    /\ statusLog = [j \in JobIds |-> <<>>]
    /\ keyFile = [j \in JobIds |-> FALSE]
    /\ logOpen = [j \in JobIds |-> FALSE]
    /\ secretStore = [j \in JobIds |-> <<>>]
    /\ createPc = [j \in JobIds |-> "idle"]
    /\ createMeta = [j \in JobIds |-> NoMeta]
    /\ jobReq = [j \in JobIds |-> NoRequest]
    /\ proc = [j \in JobIds |-> "none"]
    /\ procRc = [j \in JobIds |-> None]
    /\ sigterms = [j \in JobIds |-> 0]
    /\ stops = [j \in JobIds |-> 0]
    /\ cancelPc = [j \in JobIds |-> "idle"]
    /\ cancelMeta = [j \in JobIds |-> NoMeta]
    /\ cancelRets = [j \in JobIds |-> <<>>]
    /\ finPc = [j \in JobIds |-> "none"]
    /\ finMeta = [j \in JobIds |-> NoMeta]
    /\ finRc = [j \in JobIds |-> None]
    /\ finErr = [j \in JobIds |-> FALSE]
    /\ clock = 0

\* ---- create (service.py:85-201)

\* Lines 86-131 and, for the container backend, 144-167: the job directory,
\* the key file (_build_vars), the secret store entry (_remember_secrets) and
\* the first record, status queued.
CreateSetup(j, req, backend) ==
    /\ createPc[j] = "idle"
    /\ keyFile' = [keyFile EXCEPT ![j] =
                     req.method = "private_key" /\ req.private_key # <<>>]
    /\ secretStore' = [secretStore EXCEPT ![j] = collect_secrets(req)]
    /\ LET meta == [job_id |-> Some(j), status |-> "queued",
                    created_at |-> Some(clock), started_at |-> None,
                    finished_at |-> None, pid |-> None, exit_code |-> None,
                    container_id |->
                        IF backend = "container" THEN Some(j) ELSE None]
       IN  /\ write_meta(j, meta)
           /\ createMeta' = [createMeta EXCEPT ![j] = meta]
    /\ jobReq' = [jobReq EXCEPT ![j] = req]
    /\ createPc' = [createPc EXCEPT ![j] = "queued"]
    /\ clock' = clock + 1
    /\ UNCHANGED <<logOpen, proc, procRc, sigterms, stops, cancelPc,
                   cancelMeta, cancelRets, finPc, finMeta, finRc, finErr>>
    /\ UNCHANGED nonCtlVars

\* Lines 135-139, 145, 148, 156: create raises HTTPException (backend selector,
\* container settings, repository path) after the queued record was written.
CreateConfigError(j) ==
    /\ createPc[j] = "queued"
    /\ createPc' = [createPc EXCEPT ![j] = "config_error"]
    /\ UNCHANGED <<metaFile, tmpFile, wfd, statusLog, keyFile, logOpen,
                   secretStore, createMeta, jobReq, proc, procRc, sigterms, stops,
                   cancelPc, cancelMeta, cancelRets, finPc, finMeta, finRc,
                   finErr, clock>>
    /\ UNCHANGED nonCtlVars

\* Lines 171-179 and 189-199: start_process succeeds; the record becomes
\* running with started_at and pid, and the finalizer thread is started.
CreateLaunch(j) ==
    /\ createPc[j] = "queued"
    /\ proc' = [proc EXCEPT ![j] = "running"]
    /\ logOpen' = [logOpen EXCEPT ![j] = TRUE]
    /\ LET meta == [createMeta[j] EXCEPT !.status = "running",
                                         !.started_at = Some(clock),
                                         !.pid = Some(4242)]
       IN  /\ write_meta(j, meta)
           /\ createMeta' = [createMeta EXCEPT ![j] = meta]
    /\ clock' = clock + 1
    /\ finPc' = [finPc EXCEPT ![j] = "wait"]
    /\ createPc' = [createPc EXCEPT ![j] = "started"]
    /\ rd' = [rd EXCEPT ![j] = [NoReader EXCEPT !.pc = "read"]]
    /\ logFile' = [logFile EXCEPT ![j].exists = TRUE]
    /\ UNCHANGED <<keyFile, secretStore, jobReq, procRc, sigterms, stops, cancelPc,
                   cancelMeta, cancelRets, finMeta, finRc, finErr>>
    /\ UNCHANGED <<hubVars, gwVars, fnVars, procOut, pipe>>

\* The launch failure branch without its exit code.
CreateLaunchFailsNoExitCode(j) ==
    /\ createPc[j] = "queued"
    /\ LET meta == [createMeta[j] EXCEPT !.status = "failed",
                                         !.finished_at = Some(clock)]
       IN  /\ write_meta(j, meta)
           /\ createMeta' = [createMeta EXCEPT ![j] = meta]
    /\ clock' = clock + 1
    /\ createPc' = [createPc EXCEPT ![j] = "launch_failed"]
    /\ UNCHANGED <<keyFile, logOpen, secretStore, jobReq, proc, procRc, sigterms,
                   stops, cancelPc, cancelMeta, cancelRets, finPc, finMeta,
                   finRc, finErr>>
    /\ UNCHANGED nonCtlVars

\* Lines 180-187: start_process raises; the record becomes failed / 127 and
\* create raises HTTPException(500).
CreateLaunchFails(j) ==
    /\ createPc[j] = "queued"
    /\ LET meta == [createMeta[j] EXCEPT !.status = "failed",
                                         !.finished_at = Some(clock),
                                         !.exit_code = Some(127)]
       IN  /\ write_meta(j, meta)
           /\ createMeta' = [createMeta EXCEPT ![j] = meta]
    /\ clock' = clock + 1
    /\ createPc' = [createPc EXCEPT ![j] = "launch_failed"]
    /\ UNCHANGED <<keyFile, logOpen, secretStore, jobReq, proc, procRc, sigterms,
                   stops, cancelPc, cancelMeta, cancelRets, finPc, finMeta,
                   finRc, finErr>>
    /\ UNCHANGED nonCtlVars

\* Line 201: return self.get(job_id); the caller learns the job id.
CreateReturn(j) ==
    /\ createPc[j] = "started"
    /\ createPc' = [createPc EXCEPT ![j] = "returned"]
    /\ UNCHANGED <<metaFile, tmpFile, wfd, statusLog, keyFile, logOpen,
                   secretStore, createMeta, jobReq, proc, procRc, sigterms, stops,
                   cancelPc, cancelMeta, cancelRets, finPc, finMeta, finRc,
                   finErr, clock>>
    /\ UNCHANGED nonCtlVars

\* ---- the runner process

\* The process exits: by itself with 0 or 1, or with -15 on a SIGTERM.
ProcExit(j, rc) ==
    /\ proc[j] = "running"
    /\ rc = -15 => sigterms[j] > 0
    /\ proc' = [proc EXCEPT ![j] = "exited"]
    /\ procRc' = [procRc EXCEPT ![j] = Some(rc)]
    /\ UNCHANGED <<metaFile, tmpFile, wfd, statusLog, keyFile, logOpen,
                   secretStore, createPc, createMeta, jobReq, sigterms, stops,
                   cancelPc, cancelMeta, cancelRets, finPc, finMeta, finRc,
                   finErr, clock>>
    /\ UNCHANGED nonCtlVars

\* ---- cancel (service.py:230-260)

\* A job id is chosen inside create (uuid4) and leaves it only when create
\* ends; before that nobody can pass it to cancel. An id that is the id of no
\* job can be passed at any time.
CancelCallable(j) ==
    /\ cancelPc[j] = "idle"
    /\ \/ createPc[j] \in {"returned", "config_error", "launch_failed"}
       \/ j \notin SpecJobs
    /\ Len(cancelRets[j]) < MaxCancels

\* The call in progress (the last entry of the history) ends with r.
SetLastRet(rets, r) == [rets EXCEPT ![Len(rets)].ret = r]

\* Lines 236-238: no loadable record: return False.
CancelNotFound(j) ==
    /\ CancelCallable(j)
    /\ load_json(metaFile[j]) = NoMeta
    /\ cancelRets' = [cancelRets EXCEPT ![j] =
                        Append(@, [ret |-> "false", loaded |-> "none"])]
    /\ UNCHANGED <<metaFile, tmpFile, wfd, statusLog, keyFile, logOpen,
                   secretStore, createPc, createMeta, jobReq, proc, procRc, sigterms,
                   stops, cancelPc, cancelMeta, finPc, finMeta, finRc, finErr,
                   clock>>
    /\ UNCHANGED nonCtlVars

\* Lines 240-241: the record is terminal: return True.
CancelTerminalNoop(j) ==
    /\ CancelCallable(j)
    /\ load_json(metaFile[j]) # NoMeta
    /\ IsTerminal(load_json(metaFile[j]).status)
    /\ cancelRets' = [cancelRets EXCEPT ![j] =
                        Append(@, [ret |-> "true",
                                   loaded |-> load_json(metaFile[j]).status])]
    /\ UNCHANGED <<metaFile, tmpFile, wfd, statusLog, keyFile, logOpen,
                   secretStore, createPc, createMeta, jobReq, proc, procRc, sigterms,
                   stops, cancelPc, cancelMeta, finPc, finMeta, finRc, finErr,
                   clock>>
    /\ UNCHANGED nonCtlVars

\* Lines 236-241 otherwise: cancel goes on with the record it loaded.
CancelLoad(j) ==
    /\ CancelCallable(j)
    /\ load_json(metaFile[j]) # NoMeta
    /\ ~IsTerminal(load_json(metaFile[j]).status)
    /\ cancelMeta' = [cancelMeta EXCEPT ![j] = load_json(metaFile[j])]
    /\ cancelPc' = [cancelPc EXCEPT ![j] = "term"]
    /\ cancelRets' = [cancelRets EXCEPT ![j] =
                        Append(@, [ret |-> "pending",
                                   loaded |-> load_json(metaFile[j]).status])]
    /\ UNCHANGED <<metaFile, tmpFile, wfd, statusLog, keyFile, logOpen,
                   secretStore, createPc, createMeta, jobReq, proc, procRc,
                   sigterms, stops, finPc, finMeta, finRc, finErr, clock>>
    /\ UNCHANGED nonCtlVars

\* Lines 243-251: terminate_process_group(pid) (one killpg when pid is an
\* int, failures swallowed), stop_container(container_id) when there is one,
\* then status and finished_at of the loaded record are set.
CancelTerminate(j) ==
    /\ cancelPc[j] = "term"
    /\ sigterms' = [sigterms EXCEPT ![j] =
                      IF cancelMeta[j].pid # None THEN @ + 1 ELSE @]
    /\ stops' = [stops EXCEPT ![j] =
                   IF cancelMeta[j].container_id # None THEN @ + 1 ELSE @]
    /\ cancelMeta' = [cancelMeta EXCEPT ![j] =
                        [@ EXCEPT !.status = "canceled",
                                  !.finished_at = Some(clock)]]
    /\ clock' = clock + 1
    /\ cancelPc' = [cancelPc EXCEPT ![j] = "open"]
    /\ UNCHANGED <<metaFile, tmpFile, wfd, statusLog, keyFile, logOpen,
                   secretStore, createPc, createMeta, jobReq, proc, procRc,
                   cancelRets, finPc, finMeta, finRc, finErr>>
    /\ UNCHANGED nonCtlVars

\* Line 252, write_meta: job.json.tmp is opened,
CancelOpen(j) ==
    /\ cancelPc[j] = "open"
    /\ TmpOpen(j, "cancel")
    /\ cancelPc' = [cancelPc EXCEPT ![j] = "write"]
    /\ UNCHANGED <<keyFile, logOpen, secretStore, createPc, createMeta, jobReq, proc,
                   procRc, sigterms, stops, cancelMeta, cancelRets, finPc,
                   finMeta, finRc, finErr, clock>>
    /\ UNCHANGED nonCtlVars

\* written,
CancelWrite(j) ==
    /\ cancelPc[j] = "write"
    /\ TmpWrite(j, "cancel", cancelMeta[j])
    /\ cancelPc' = [cancelPc EXCEPT ![j] = "replace"]
    /\ UNCHANGED <<keyFile, logOpen, secretStore, createPc, createMeta, jobReq, proc,
                   procRc, sigterms, stops, cancelMeta, cancelRets, finPc,
                   finMeta, finRc, finErr, clock>>
    /\ UNCHANGED nonCtlVars

\* and renamed over job.json.
CancelReplace(j) ==
    /\ cancelPc[j] = "replace"
    /\ TmpReplace(j, "cancel")
    /\ cancelPc' = [cancelPc EXCEPT ![j] = "unlink"]
    /\ UNCHANGED <<keyFile, logOpen, secretStore, createPc, createMeta, jobReq, proc,
                   procRc, sigterms, stops, cancelMeta, cancelRets, finPc,
                   finMeta, finRc, finErr, clock>>
    /\ UNCHANGED nonCtlVars

\* Line 252 when the rename finds no job.json.tmp: FileNotFoundError leaves
\* cancel; lines 253-260 do not run.
CancelReplaceRaises(j) ==
    /\ cancelPc[j] = "replace"
    /\ TmpReplaceRaises(j)
    /\ cancelPc' = [cancelPc EXCEPT ![j] = "idle"]
    /\ cancelRets' = [cancelRets EXCEPT ![j] = SetLastRet(@, "raised")]
    /\ UNCHANGED <<metaFile, tmpFile, wfd, statusLog, keyFile, logOpen,
                   secretStore, createPc, createMeta, jobReq, proc, procRc, sigterms,
                   stops, cancelMeta, finPc, finMeta, finRc, finErr, clock>>
    /\ UNCHANGED nonCtlVars

\* Lines 253-257: the key file is unlinked when it exists.
CancelUnlink(j) ==
    /\ cancelPc[j] = "unlink"
    /\ keyFile' = [keyFile EXCEPT ![j] = FALSE]
    /\ cancelPc' = [cancelPc EXCEPT ![j] = "pop"]
    /\ UNCHANGED <<metaFile, tmpFile, wfd, statusLog, logOpen, secretStore,
                   createPc, createMeta, jobReq, proc, procRc, sigterms, stops,
                   cancelMeta, cancelRets, finPc, finMeta, finRc, finErr,
                   clock>>
    /\ UNCHANGED nonCtlVars

\* Lines 258-260 with self._secret_store.clear() in place of pop(rid).
CancelPopClearsStore(j) ==
    /\ cancelPc[j] = "pop"
    /\ secretStore' = [k \in JobIds |-> <<>>]
    /\ cancelPc' = [cancelPc EXCEPT ![j] = "idle"]
    /\ cancelRets' = [cancelRets EXCEPT ![j] = SetLastRet(@, "true")]
    /\ UNCHANGED <<metaFile, tmpFile, wfd, statusLog, keyFile, logOpen,
                   createPc, createMeta, jobReq, proc, procRc, sigterms, stops,
                   cancelMeta, finPc, finMeta, finRc, finErr, clock>>
    /\ UNCHANGED nonCtlVars

\* Lines 258-260: the secret store entry is popped; return True.
CancelPop(j) ==
    /\ cancelPc[j] = "pop"
    /\ secretStore' = [secretStore EXCEPT ![j] = <<>>]
    /\ cancelPc' = [cancelPc EXCEPT ![j] = "idle"]
    /\ cancelRets' = [cancelRets EXCEPT ![j] = SetLastRet(@, "true")]
    /\ UNCHANGED <<metaFile, tmpFile, wfd, statusLog, keyFile, logOpen,
                   createPc, createMeta, jobReq, proc, procRc, sigterms, stops,
                   cancelMeta, finPc, finMeta, finRc, finErr, clock>>
    /\ UNCHANGED nonCtlVars

\* ---- the finalizer thread (service.py:262-293)

\* Lines 265-267: proc.wait() returns the exit code; reader.join(timeout=2)
\* returns after at most two seconds.
FinWait(j) ==
    /\ finPc[j] = "wait"
    /\ proc[j] = "exited"
    /\ finRc' = [finRc EXCEPT ![j] = procRc[j]]
    /\ finPc' = [finPc EXCEPT ![j] = "close"]
    /\ UNCHANGED <<metaFile, tmpFile, wfd, statusLog, keyFile, logOpen,
                   secretStore, createPc, createMeta, jobReq, proc, procRc, sigterms,
                   stops, cancelPc, cancelMeta, cancelRets, finMeta, finErr,
                   clock>>
    /\ UNCHANGED nonCtlVars

\* Lines 264-268: proc.wait() or reader.join() raises; the finally block runs
\* and the exception then leaves _wait_and_finalize.
FinWaitRaises(j) ==
    /\ finPc[j] = "wait"
    /\ finErr' = [finErr EXCEPT ![j] = TRUE]
    /\ finPc' = [finPc EXCEPT ![j] = "close"]
    /\ UNCHANGED <<metaFile, tmpFile, wfd, statusLog, keyFile, logOpen,
                   secretStore, createPc, createMeta, jobReq, proc, procRc, sigterms,
                   stops, cancelPc, cancelMeta, cancelRets, finMeta, finRc,
                   clock>>
    /\ UNCHANGED nonCtlVars

\* Lines 269-272: log_fh.close(), errors swallowed.
FinClose(j) ==
    /\ finPc[j] = "close"
    /\ logOpen' = [logOpen EXCEPT ![j] = FALSE]
    /\ finPc' = [finPc EXCEPT ![j] = "unlink"]
    /\ UNCHANGED <<metaFile, tmpFile, wfd, statusLog, keyFile, secretStore,
                   createPc, createMeta, jobReq, proc, procRc, sigterms, stops,
                   cancelPc, cancelMeta, cancelRets, finMeta, finRc, finErr,
                   clock>>
    /\ UNCHANGED nonCtlVars

\* Lines 273-277: the key file is unlinked when it exists.
FinUnlink(j) ==
    /\ finPc[j] = "unlink"
    /\ keyFile' = [keyFile EXCEPT ![j] = FALSE]
    /\ finPc' = [finPc EXCEPT ![j] = "pop"]
    /\ UNCHANGED <<metaFile, tmpFile, wfd, statusLog, logOpen, secretStore,
                   createPc, createMeta, jobReq, proc, procRc, sigterms, stops,
                   cancelPc, cancelMeta, cancelRets, finMeta, finRc, finErr,
                   clock>>
    /\ UNCHANGED nonCtlVars

\* Lines 278-279: the secret store entry is popped; the finally block ends,
\* and a pending exception ends the thread here.
FinPop(j) ==
    /\ finPc[j] = "pop"
    /\ secretStore' = [secretStore EXCEPT ![j] = <<>>]
    /\ finPc' = [finPc EXCEPT ![j] = IF finErr[j] THEN "raised" ELSE "load"]
    /\ UNCHANGED <<metaFile, tmpFile, wfd, statusLog, keyFile, logOpen,
                   createPc, createMeta, jobReq, proc, procRc, sigterms, stops,
                   cancelPc, cancelMeta, cancelRets, finMeta, finRc, finErr,
                   clock>>
    /\ UNCHANGED nonCtlVars

\* Lines 281-292: the record is loaded again; canceled is kept and only an
\* empty finished_at is filled, any other status is replaced.
FinLoad(j) ==
    /\ finPc[j] = "load"
    /\ LET meta == load_json(metaFile[j])
       IN  IF meta.status = "canceled"
           THEN /\ finMeta' = [finMeta EXCEPT ![j] =
                                 [meta EXCEPT !.finished_at =
                                    IF @ # None THEN @ ELSE Some(clock)]]
                /\ clock' = IF meta.finished_at # None THEN clock
                            ELSE clock + 1
           ELSE /\ finMeta' = [finMeta EXCEPT ![j] =
                                 [meta EXCEPT
                                    !.finished_at = Some(clock),
                                    !.exit_code = finRc[j],
                                    !.status = IF finRc[j] = Some(0)
                                               THEN "succeeded"
                                               ELSE "failed"]]
                /\ clock' = clock + 1
    /\ finPc' = [finPc EXCEPT ![j] = "open"]
    /\ UNCHANGED <<metaFile, tmpFile, wfd, statusLog, keyFile, logOpen,
                   secretStore, createPc, createMeta, jobReq, proc, procRc, sigterms,
                   stops, cancelPc, cancelMeta, cancelRets, finRc, finErr>>
    /\ UNCHANGED nonCtlVars

\* Lines 287 / 293, write_meta: job.json.tmp is opened,
FinOpen(j) ==
    /\ finPc[j] = "open"
    /\ TmpOpen(j, "fin")
    /\ finPc' = [finPc EXCEPT ![j] = "write"]
    /\ UNCHANGED <<keyFile, logOpen, secretStore, createPc, createMeta, jobReq, proc,
                   procRc, sigterms, stops, cancelPc, cancelMeta, cancelRets,
                   finMeta, finRc, finErr, clock>>
    /\ UNCHANGED nonCtlVars

\* written,
FinWrite(j) ==
    /\ finPc[j] = "write"
    /\ TmpWrite(j, "fin", finMeta[j])
    /\ finPc' = [finPc EXCEPT ![j] = "replace"]
    /\ UNCHANGED <<keyFile, logOpen, secretStore, createPc, createMeta, jobReq, proc,
                   procRc, sigterms, stops, cancelPc, cancelMeta, cancelRets,
                   finMeta, finRc, finErr, clock>>
    /\ UNCHANGED nonCtlVars

\* and renamed over job.json.
FinReplace(j) ==
    /\ finPc[j] = "replace"
    /\ TmpReplace(j, "fin")
    /\ finPc' = [finPc EXCEPT ![j] = "done"]
    /\ UNCHANGED <<keyFile, logOpen, secretStore, createPc, createMeta, jobReq, proc,
                   procRc, sigterms, stops, cancelPc, cancelMeta, cancelRets,
                   finMeta, finRc, finErr, clock>>
    /\ UNCHANGED nonCtlVars

\* Lines 287 / 293 when the rename finds no job.json.tmp: FileNotFoundError
\* ends the thread.
FinReplaceRaises(j) ==
    /\ finPc[j] = "replace"
    /\ TmpReplaceRaises(j)
    /\ finPc' = [finPc EXCEPT ![j] = "raised"]
    /\ UNCHANGED <<metaFile, tmpFile, wfd, statusLog, keyFile, logOpen,
                   secretStore, createPc, createMeta, jobReq, proc, procRc, sigterms,
                   stops, cancelPc, cancelMeta, cancelRets, finMeta, finRc,
                   finErr, clock>>
    /\ UNCHANGED nonCtlVars

\* ---- the Log Hub (log_hub.py)

\* The n-th line of output used where the lines must be told apart.
DigitChars == <<"1", "2", "3", "4", "5", "6", "7", "8", "9">>

NumberedLine(n) == <<DigitChars[n]>>

\* queue.Queue objects, compared by identity (log_hub.py:30, 41).
QueueIds == {"q1", "q2"}

\* deque.appendleft on a deque(maxlen=buffer_size): the newest line comes
\* first and the eviction is at the right end.
DequeAppendLeft(buf, line) ==
    LET b == <<line>> \o buf
    IN  IF Len(b) > BufferSize THEN SubSeq(b, 1, BufferSize) ELSE b

\* append on a deque without maxlen: nothing is evicted.
DequeAppendUnbounded(buf, line) == Append(buf, line)

\* log_hub.py:18-19: deque(maxlen=buffer_size).append evicts the oldest line.
DequeAppend(buf, line) ==
    LET b == Append(buf, line)
    IN  IF Len(b) > BufferSize THEN Tail(b) ELSE b

\* [s for s in subs if s is not q] (log_hub.py:41).
Without(subs, q) == SelectSeq(subs, LAMBDA s : s # q)

SeqHas(s, x) == \E i \in 1..Len(s) : s[i] = x

HubInit ==
    /\ hubBuffers = [j \in JobIds |-> <<>>]
    /\ hubSubscribers = [j \in JobIds |-> <<>>]
    /\ queues = [q \in QueueIds |-> <<>>]
    /\ qState = [q \in QueueIds |-> "free"]
    /\ pub = [j \in JobIds |-> [pc |-> "idle", line |-> <<>>, targets |-> <<>>]]
    /\ hist = [published |-> [j \in JobIds |-> <<>>],
               job       |-> [q \in QueueIds |-> "none"],
               subAt     |-> [q \in QueueIds |-> 0],
               snapshot  |-> [q \in QueueIds |-> <<>>],
               delivered |-> [q \in QueueIds |-> <<>>],
               dropped   |-> [q \in QueueIds |-> <<>>]]

\* publish, lines 17-20: under the lock, append to the job's buffer and copy
\* the list of subscribers.
PublishLock(j, line) ==
    /\ pub[j].pc = "idle"
    /\ hubBuffers' = [hubBuffers EXCEPT ![j] = DequeAppend(@, line)]
    /\ pub' = [pub EXCEPT ![j] = [pc |-> "deliver", line |-> line,
                                  targets |-> hubSubscribers[j]]]
    /\ hist' = [hist EXCEPT !.published[j] = Append(@, line)]
    /\ UNCHANGED <<hubSubscribers, queues, qState>>

\* The delivery loop with break in place of continue at line 27: a full
\* queue ends the loop.
HubDeliverBreaksAtFull(j) ==
    /\ pub[j].pc = "deliver"
    /\ pub[j].targets # <<>>
    /\ LET q == Head(pub[j].targets)
       IN  IF Len(queues[q]) < QueueMaxSize
           THEN /\ queues' = [queues EXCEPT ![q] = Append(@, pub[j].line)]
                /\ hist' = [hist EXCEPT !.delivered[q] = Append(@, pub[j].line)]
                /\ pub' = [pub EXCEPT ![j].targets = Tail(@)]
           ELSE /\ queues' = queues
                /\ hist' = [hist EXCEPT !.dropped[q] = Append(@, pub[j].line)]
                /\ pub' = [pub EXCEPT ![j].targets = <<>>]
    /\ UNCHANGED <<hubBuffers, hubSubscribers, qState>>
    /\ UNCHANGED <<ctlVars, rdVars, gwVars, fnVars>>

\* publish, lines 22-27: outside the lock, one put_nowait per copied
\* subscriber; queue.Full skips the subscriber.
HubDeliver(j) ==
    /\ pub[j].pc = "deliver"
    /\ pub[j].targets # <<>>
    /\ LET q == Head(pub[j].targets)
       IN  IF Len(queues[q]) < QueueMaxSize
           THEN /\ queues' = [queues EXCEPT ![q] = Append(@, pub[j].line)]
                /\ hist' = [hist EXCEPT !.delivered[q] = Append(@, pub[j].line)]
           ELSE /\ queues' = queues
                /\ hist' = [hist EXCEPT !.dropped[q] = Append(@, pub[j].line)]
    /\ pub' = [pub EXCEPT ![j].targets = Tail(@)]
    /\ UNCHANGED <<hubBuffers, hubSubscribers, qState>>
    /\ UNCHANGED <<ctlVars, rdVars, gwVars, fnVars>>

\* publish returns once the loop of lines 22-27 is over.
HubPublishReturn(j) ==
    /\ pub[j].pc = "deliver"
    /\ pub[j].targets = <<>>
    /\ pub' = [pub EXCEPT ![j].pc = "idle"]
    /\ UNCHANGED <<hubBuffers, hubSubscribers, queues, qState, hist>>
    /\ UNCHANGED <<ctlVars, rdVars, gwVars, fnVars>>

\* subscribe, lines 29-34: a new queue; under the lock, register it and copy
\* the buffer.
Subscribe(j, q) ==
    /\ qState[q] = "free"
    /\ qState' = [qState EXCEPT ![q] = "subscribed"]
    /\ hubSubscribers' = [hubSubscribers EXCEPT ![j] = Append(@, q)]
    /\ hist' = [hist EXCEPT !.job[q] = j,
                            !.subAt[q] = Len(hist.published[j]),
                            !.snapshot[q] = hubBuffers[j]]
    /\ UNCHANGED <<hubBuffers, queues, pub>>

\* unsubscribe, lines 36-43.
Unsubscribe(j, q) ==
    /\ hubSubscribers' = [hubSubscribers EXCEPT ![j] = Without(@, q)]
    /\ qState' = [qState EXCEPT ![q] = "unsubscribed"]
    /\ UNCHANGED <<hubBuffers, queues, pub, hist>>

\* ---- the runner process and the reader thread (runner.py:83-168)

\* runner._split_stream_buffer (runner.py:83-102): the complete lines of the
\* buffer, broken at LF or CR, and the unterminated rest.
RECURSIVE split_stream_buffer(_)
split_stream_buffer(buffer) ==
    LET idx_n == Find(buffer, LF)
        idx_r == Find(buffer, CR)
        idx   == IF idx_n = 0 THEN idx_r
                 ELSE IF idx_r = 0 THEN idx_n
                 ELSE IF idx_n < idx_r THEN idx_n ELSE idx_r
    IN  IF idx = 0 THEN [lines |-> <<>>, buffer |-> buffer]
        ELSE LET rest == split_stream_buffer(SubSeq(buffer, idx + 1, Len(buffer)))
             IN  [lines  |-> <<SubSeq(buffer, 1, idx - 1)>> \o rest.lines,
                  buffer |-> rest.buffer]

\* os.read(fd, 4096), runner.py:150.
ReadSize == 4096

\* The characters the process writes: those of the job's secrets, the line
\* feed and one other character.
OutChars(req) ==
    AllOutChars \cap
        ({req.password[i] : i \in 1..Len(req.password)}
         \cup {req.private_key[i] : i \in 1..Len(req.private_key)}
         \cup {LF, "x"})

RdInit ==
    /\ procOut = [j \in JobIds |-> <<>>]
    /\ pipe = [j \in JobIds |-> <<>>]
    /\ rd = [j \in JobIds |-> NoReader]
    /\ logFile = [j \in JobIds |-> NoLog]

\* The process writes one character to its stdout or stderr (both are the
\* pipe, runner.py:125-126).
ProcWrite(j, c) ==
    /\ proc[j] = "running"
    /\ Len(procOut[j]) < MaxOut
    /\ c \in OutChars(jobReq[j])
    /\ procOut' = [procOut EXCEPT ![j] = Append(@, c)]
    /\ pipe' = [pipe EXCEPT ![j] = Append(@, c)]
    /\ UNCHANGED <<rd, logFile>>
    /\ UNCHANGED <<ctlVars, hubVars, gwVars, fnVars>>

\* Lines 150-154: os.read returns what the pipe holds, at most ReadSize
\* characters (the characters here are ASCII, which decode() leaves as they
\* are); the buffer is split into lines.
ReaderRead(j) ==
    /\ rd[j].pc = "read"
    /\ pub[j].pc = "idle"
    /\ pipe[j] # <<>>
    /\ LET n     == Min(Len(pipe[j]), ReadSize)
           split == split_stream_buffer(rd[j].buf \o SubSeq(pipe[j], 1, n))
       IN  /\ pipe' = [pipe EXCEPT ![j] = SubSeq(@, n + 1, Len(@))]
           /\ rd' = [rd EXCEPT ![j].buf = split.buffer,
                               ![j].lines = split.lines,
                               ![j].pc = IF split.lines = <<>> THEN "read"
                                         ELSE "emit"]
    /\ UNCHANGED <<procOut, logFile>>
    /\ UNCHANGED <<ctlVars, hubVars, gwVars, fnVars>>

\* Lines 151-152 and 157-163: end of file; an unterminated rest is emitted
\* as the last line, then stdout is closed.
ReaderEof(j) ==
    /\ rd[j].pc = "read"
    /\ pub[j].pc = "idle"
    /\ pipe[j] = <<>>
    /\ proc[j] = "exited"
    /\ rd' = [rd EXCEPT ![j].buf = <<>>,
                        ![j].lines = IF rd[j].buf = <<>> THEN <<>>
                                     ELSE <<rd[j].buf>>,
                        ![j].pc = IF rd[j].buf = <<>> THEN "done" ELSE "last"]
    /\ UNCHANGED <<procOut, pipe, logFile>>
    /\ UNCHANGED <<ctlVars, hubVars, gwVars, fnVars>>

\* _emit without the call of mask_secrets: the line goes to job.log and to
\* on_line as it was read.
ReaderEmitUnmasked(j) ==
    /\ rd[j].pc \in {"emit", "last"}
    /\ rd[j].lines # <<>>
    /\ pub[j].pc = "idle"
    /\ logOpen[j]
    /\ logFile' = [logFile EXCEPT ![j].text = @ \o Head(rd[j].lines) \o <<LF>>]
    /\ rd' = [rd EXCEPT ![j].masked = Head(rd[j].lines),
                        ![j].pc = IF rd[j].pc = "emit" THEN "publish"
                                  ELSE "publish_last"]
    /\ UNCHANGED <<procOut, pipe>>
    /\ UNCHANGED <<ctlVars, hubVars, gwVars, fnVars>>

\* _emit, lines 140-141: mask the line with the secrets passed to
\* start_process (service.py:175) and write it, with a line feed, to job.log
\* (line buffered, runner.py:117).
ReaderEmit(j) ==
    /\ rd[j].pc \in {"emit", "last"}
    /\ rd[j].lines # <<>>
    /\ pub[j].pc = "idle"
    /\ logOpen[j]
    /\ \E masked \in mask_secrets(Head(rd[j].lines), collect_secrets(jobReq[j])) :
          /\ logFile' = [logFile EXCEPT ![j].text = @ \o masked \o <<LF>>]
          /\ rd' = [rd EXCEPT ![j].masked = masked,
                              ![j].pc = IF rd[j].pc = "emit" THEN "publish"
                                        ELSE "publish_last"]
    /\ UNCHANGED <<procOut, pipe>>
    /\ UNCHANGED <<ctlVars, hubVars, gwVars, fnVars>>

\* _emit, line 141 after the finalizer has closed the log file
\* (service.py:268): write raises ValueError, which ends the thread
\* (lines 159-163).
ReaderEmitRaises(j) ==
    /\ rd[j].pc \in {"emit", "last"}
    /\ rd[j].lines # <<>>
    /\ pub[j].pc = "idle"
    /\ ~logOpen[j]
    /\ rd' = [rd EXCEPT ![j].pc = "raised"]
    /\ UNCHANGED <<procOut, pipe, logFile>>
    /\ UNCHANGED <<ctlVars, hubVars, gwVars, fnVars>>

\* _emit, lines 142-146: on_line(masked) is LogHub.publish (service.py:176);
\* the lock phase here, the deliveries in HubDeliver. The reader goes on
\* once publish has returned.
ReaderPublish(j) ==
    /\ rd[j].pc \in {"publish", "publish_last"}
    /\ PublishLock(j, rd[j].masked)
    /\ rd' = [rd EXCEPT ![j].lines = Tail(@),
                        ![j].pc = IF rd[j].pc = "publish_last" THEN "done"
                                  ELSE IF Tail(rd[j].lines) = <<>> THEN "read"
                                  ELSE "emit"]
    /\ UNCHANGED <<procOut, pipe, logFile>>
    /\ UNCHANGED <<ctlVars, gwVars, fnVars>>

Reader(j) ==
    \/ ReaderRead(j)
    \/ ReaderEof(j)
    \/ ReaderEmit(j)
    \/ ReaderEmitRaises(j)
    \/ ReaderPublish(j)

\* ---- the log stream of one connection (deployments.py:89-229)

\* One server-sent event; the fields an event kind does not use keep their
\* defaults.
LogEvent(line) ==
    [event |-> "log", line |-> line, status |-> "none", exit_code |-> None]

StatusEvent(meta) ==
    [event |-> "status", line |-> <<>>,
     status |-> IF meta.status = "none" THEN "queued" ELSE meta.status,
     exit_code |-> meta.exit_code]

DoneEvent(meta) == [StatusEvent(meta) EXCEPT !.event = "done"]

\* mask_secrets on each line of a list: the possible lists of results.
RECURSIVE MaskAll(_, _)
MaskAll(lines, secrets) ==
    IF lines = <<>> THEN {<<>>}
    ELSE { <<m>> \o rest : m \in mask_secrets(Head(lines), secrets),
                           rest \in MaskAll(Tail(lines), secrets) }

RECURSIVE LogEvents(_)
LogEvents(lines) ==
    IF lines = <<>> THEN <<>>
    ELSE <<LogEvent(Head(lines))>> \o LogEvents(Tail(lines))

\* _split_log_lines if it broke lines at LF only.
RECURSIVE split_log_lines_at_lf(_)
split_log_lines_at_lf(buffer) ==
    LET idx == Find(buffer, LF)
    IN  IF idx = 0 THEN [lines |-> <<>>, buffer |-> buffer]
        ELSE LET line == SubSeq(buffer, 1, idx - 1)
                 rest == split_log_lines_at_lf(
                             SubSeq(buffer, idx + 1, Len(buffer)))
             IN  [lines |-> <<line>> \o rest.lines, buffer |-> rest.buffer]

\* deployments._split_log_lines (deployments.py:66-86): the complete lines
\* of the buffer, broken at LF or CR, and the unterminated rest.
RECURSIVE split_log_lines(_)
split_log_lines(buffer) ==
    LET idx_n == Find(buffer, LF)
        idx_r == Find(buffer, CR)
        idx   == IF idx_n = 0 THEN idx_r
                 ELSE IF idx_r = 0 THEN idx_n
                 ELSE IF idx_n < idx_r THEN idx_n ELSE idx_r
    IN  IF idx = 0 THEN [lines |-> <<>>, buffer |-> buffer]
        ELSE LET line == SubSeq(buffer, 1, idx - 1)
                 rest == split_log_lines(SubSeq(buffer, idx + 1, Len(buffer)))
             IN  [lines |-> <<line>> \o rest.lines, buffer |-> rest.buffer]

NoStream ==
    [pc |-> "none", job |-> "none", secrets |-> <<>>, buffered_lines |-> <<>>,
     last_status |-> "none", buffer |-> <<>>, log_fh |-> None,
     new_data |-> FALSE, terminal_ticks |-> -1, events |-> <<>>]

\* No get(id) has been answered yet.
NoSnapshot ==
    [NoMeta EXCEPT !.job_id = Some("none")]

\* HTTPException(404) of service.py:206 and 210.
NotFound ==
    [NoMeta EXCEPT !.job_id = Some("404")]

GwInit ==
    /\ gw = [c \in QueueIds |-> NoStream]
    /\ getRes = [i \in 0..MaxRestarts |-> [j \in JobIds |-> NoSnapshot]]
    /\ instance = 0

\* Lines 99-102: the job directory exists (service.py:208-210), the secrets
\* of the job are read and the connection subscribes to the hub.
GwConnect(c, j) ==
    /\ gw[c].pc = "none"
    /\ createPc[j] # "idle"
    /\ Subscribe(j, c)
    /\ gw' = [gw EXCEPT ![c] = [NoStream EXCEPT !.pc = "start",
                                                !.job = j,
                                                !.secrets = secretStore[j],
                                                !.buffered_lines = hubBuffers[j]]]
    /\ UNCHANGED <<ctlVars, rdVars, getRes, instance, fnVars>>

\* GwStart without the yield of lines 113-127: the status is read and
\* remembered, and the replay is the first thing the client sees.
GwStartSilent(c) ==
    /\ gw[c].pc = "start"
    /\ LET meta == load_json(metaFile[gw[c].job])
       IN  gw' = [gw EXCEPT ![c].pc = "replay",
                            ![c].last_status = StatusEvent(meta).status]
    /\ UNCHANGED <<ctlVars, hubVars, rdVars, getRes, instance, fnVars>>

\* Lines 105-127: the first status event.
GwStart(c) ==
    /\ gw[c].pc = "start"
    /\ LET meta == load_json(metaFile[gw[c].job])
       IN  gw' = [gw EXCEPT ![c].pc = "replay",
                            ![c].last_status = StatusEvent(meta).status,
                            ![c].events = Append(@, StatusEvent(meta))]
    /\ UNCHANGED <<ctlVars, hubVars, rdVars, getRes, instance, fnVars>>

\* Lines 130-131: the replay of the snapshot.
GwReplay(c) ==
    /\ gw[c].pc = "replay"
    /\ \E masked \in MaskAll(gw[c].buffered_lines, gw[c].secrets) :
          gw' = [gw EXCEPT ![c].pc = "drain",
                           ![c].new_data = FALSE,
                           ![c].events = @ \o LogEvents(masked)]
    /\ UNCHANGED <<ctlVars, hubVars, rdVars, getRes, instance, fnVars>>

\* Lines 138-144: one line taken off the queue and emitted.
GwGet(c) ==
    /\ gw[c].pc = "drain"
    /\ queues[c] # <<>>
    /\ queues' = [queues EXCEPT ![c] = Tail(@)]
    /\ \E m \in mask_secrets(Head(queues[c]), gw[c].secrets) :
          gw' = [gw EXCEPT ![c].new_data = TRUE,
                           ![c].events = Append(@, LogEvent(m))]
    /\ UNCHANGED <<hubBuffers, hubSubscribers, qState, pub, hist>>
    /\ UNCHANGED <<ctlVars, rdVars, getRes, instance, fnVars>>

\* Lines 141-142 and 146-161: the queue is empty; if nothing came from it in
\* this tick and job.log exists it is opened, and an open job.log is read
\* from the file position to its end, split into lines and emitted.
GwFile(c) ==
    /\ gw[c].pc = "drain"
    /\ queues[c] = <<>>
    /\ LET g     == gw[c]
           log   == logFile[g.job]
           fh    == IF ~g.new_data /\ g.log_fh = None /\ log.exists
                    THEN Some(0) ELSE g.log_fh
           chunk == IF fh = None THEN <<>>
                    ELSE SubSeq(log.text, fh[1] + 1, Len(log.text))
           split == split_log_lines(g.buffer \o chunk)
       IN  \E masked \in MaskAll(IF chunk = <<>> THEN <<>> ELSE split.lines,
                                 g.secrets) :
              gw' = [gw EXCEPT
                        ![c].pc = "status",
                        ![c].log_fh = IF fh = None THEN None
                                      ELSE Some(Len(log.text)),
                        ![c].new_data = g.new_data \/ chunk # <<>>,
                        ![c].buffer = IF chunk = <<>> THEN g.buffer
                                      ELSE split.buffer,
                        ![c].events = @ \o LogEvents(masked)]
    /\ UNCHANGED <<ctlVars, hubVars, rdVars, getRes, instance, fnVars>>

\* GwStatus without the update of last_status at line 166: the status is
\* compared with the one the stream began with.
GwStatusKeepsLast(c, elapsed) ==
    /\ gw[c].pc = "status"
    /\ LET g      == gw[c]
           meta   == load_json(metaFile[g.job])
           status == StatusEvent(meta).status
           ticks  == IF ~IsTerminal(status) THEN -1
                     ELSE IF g.terminal_ticks = -1 THEN 0
                     ELSE g.terminal_ticks
           events == IF status # g.last_status
                     THEN Append(g.events, StatusEvent(meta)) ELSE g.events
       IN  /\ elapsed => ticks >= 1
           /\ ~elapsed => ticks < GraceTicks
           /\ ~(IsTerminal(status) /\ ~g.new_data /\ elapsed)
           /\ gw' = [gw EXCEPT ![c].pc = "drain",
                               ![c].new_data = FALSE,
                               ![c].terminal_ticks =
                                   IF ticks = -1 THEN -1
                                   ELSE Min(ticks + 1, GraceTicks),
                               ![c].events = events]
    /\ UNCHANGED <<ctlVars, hubVars, rdVars, getRes, instance, fnVars>>

\* GwStatus with terminal_since set in every tick that finds a terminal
\* status, not only when it is None (line 183): the grace period starts
\* again with each tick.
GwStatusRestartsGrace(c, elapsed) ==
    /\ gw[c].pc = "status"
    /\ LET g      == gw[c]
           meta   == load_json(metaFile[g.job])
           status == StatusEvent(meta).status
           events == IF status # g.last_status
                     THEN Append(g.events, StatusEvent(meta)) ELSE g.events
       IN  /\ ~elapsed
           /\ gw' = [gw EXCEPT ![c].pc = "drain",
                               ![c].new_data = FALSE,
                               ![c].last_status = status,
                               ![c].terminal_ticks =
                                   IF IsTerminal(status) THEN 1 ELSE -1,
                               ![c].events = events]
    /\ UNCHANGED <<ctlVars, hubVars, rdVars, getRes, instance, fnVars>>

\* Lines 163-211, when the stream goes on: a status event if the status
\* changed, the start of the grace period of a terminal status, the sleep.
\* elapsed tells whether 0.5 s have passed since terminal_since: never in the
\* tick that set it, always after GraceTicks sleeps of 0.2 s.
GwStatus(c, elapsed) ==
    /\ gw[c].pc = "status"
    /\ LET g      == gw[c]
           meta   == load_json(metaFile[g.job])
           status == StatusEvent(meta).status
           ticks  == IF ~IsTerminal(status) THEN -1
                     ELSE IF g.terminal_ticks = -1 THEN 0
                     ELSE g.terminal_ticks
           events == IF status # g.last_status
                     THEN Append(g.events, StatusEvent(meta)) ELSE g.events
       IN  /\ elapsed => ticks >= 1
           /\ ~elapsed => ticks < GraceTicks
           /\ ~(IsTerminal(status) /\ ~g.new_data /\ elapsed)
           /\ gw' = [gw EXCEPT ![c].pc = "drain",
                               ![c].new_data = FALSE,
                               ![c].last_status = status,
                               ![c].terminal_ticks =
                                   IF ticks = -1 THEN -1
                                   ELSE Min(ticks + 1, GraceTicks),
                               ![c].events = events]
    /\ UNCHANGED <<ctlVars, hubVars, rdVars, getRes, instance, fnVars>>

\* The end of the stream without the break of line 203: the done event is
\* emitted and the loop goes on.
GwDoneWithoutBreak(c) ==
    /\ gw[c].pc = "status"
    /\ LET g      == gw[c]
           meta   == load_json(metaFile[g.job])
           status == StatusEvent(meta).status
       IN  /\ IsTerminal(status)
           /\ ~g.new_data
           /\ g.terminal_ticks >= 1
           /\ Len(g.events) < 8
           /\ gw' = [gw EXCEPT ![c].pc = "drain",
                               ![c].last_status = status,
                               ![c].events = Append(@, DoneEvent(meta))]
    /\ UNCHANGED <<ctlVars, hubVars, rdVars, getRes, instance, fnVars>>

\* Lines 163-203 and 212-218, when the stream ends: the status is terminal,
\* the tick brought no data and the grace period is over; the rest of the
\* file buffer and the done event are emitted, job.log is closed and the
\* queue is unsubscribed.
GwDone(c) ==
    /\ gw[c].pc = "status"
    /\ LET g      == gw[c]
           meta   == load_json(metaFile[g.job])
           status == StatusEvent(meta).status
           events == IF status # g.last_status
                     THEN Append(g.events, StatusEvent(meta)) ELSE g.events
       IN  /\ IsTerminal(status)
           /\ ~g.new_data
           /\ g.terminal_ticks >= 1
           /\ \E masked \in MaskAll(IF g.buffer = <<>> THEN <<>>
                                    ELSE <<g.buffer>>, g.secrets) :
                 gw' = [gw EXCEPT ![c].pc = "closed",
                                  ![c].last_status = status,
                                  ![c].buffer = <<>>,
                                  ![c].log_fh = None,
                                  ![c].events = events \o LogEvents(masked)
                                                \o <<DoneEvent(meta)>>]
           /\ Unsubscribe(g.job, c)
    /\ UNCHANGED <<ctlVars, rdVars, getRes, instance, fnVars>>

\* Lines 134-135 and 212-218: the client has gone while the generator is
\* inside the try block (lines 129-211); job.log is closed and the queue is
\* unsubscribed by the finally clause.
GwDisconnect(c) ==
    /\ gw[c].pc \in {"drain", "status"}
    /\ gw' = [gw EXCEPT ![c].pc = "closed", ![c].log_fh = None]
    /\ Unsubscribe(gw[c].job, c)
    /\ UNCHANGED <<ctlVars, rdVars, getRes, instance, fnVars>>

\* Lines 102-129: the response ends while the generator is outside the try
\* block: it was never started (the body is not iterated after
\* subscribe_logs at line 102), or it is closed while suspended at the yield
\* of the first status event (line 114).  The finally clause of lines
\* 212-218 belongs to the try of line 129 and does not run.
GwAbandon(c) ==
    /\ gw[c].pc \in {"start", "replay"}
    /\ gw' = [gw EXCEPT ![c].pc = "closed"]
    /\ UNCHANGED <<ctlVars, hubVars, rdVars, getRes, instance, fnVars>>

Gateway(c) ==
    \/ \E j \in SpecJobs : GwConnect(c, j)
    \/ GwStart(c)
    \/ GwReplay(c)
    \/ GwGet(c)
    \/ GwFile(c)
    \/ \E elapsed \in BOOLEAN : GwStatus(c, elapsed)
    \/ GwDone(c)
    \/ GwDisconnect(c)
    \/ GwAbandon(c)

\* The steps of event_stream while the client reads the response: the
\* generator is resumed after each event and after each sleep.
GwRun(c) ==
    \/ GwStart(c)
    \/ GwReplay(c)
    \/ GwGet(c)
    \/ GwFile(c)
    \/ \E elapsed \in BOOLEAN : GwStatus(c, elapsed)
    \/ GwDone(c)

\* The process writes its next line, numbered, in one write.
ProcWriteLine(j) ==
    /\ proc[j] = "running"
    /\ Len(SplitLines(procOut[j])) < StreamLines
    /\ LET out == NumberedLine(Len(SplitLines(procOut[j])) + 1) \o <<LF>>
       IN  /\ procOut' = [procOut EXCEPT ![j] = @ \o out]
           /\ pipe' = [pipe EXCEPT ![j] = @ \o out]
    /\ UNCHANGED <<rd, logFile>>
    /\ UNCHANGED <<ctlVars, hubVars, gwVars, fnVars>>

\* ---- get (service.py:203-228)

\* The job directory is made by the first step of create (line 88) and never
\* removed.
JobDirExists(j) == createPc[j] # "idle"

\* JobRunnerService.get: 404 for an id without a job directory, else the
\* fields of load_json(job.json), status defaulting to queued and created_at
\* to the current time.
get(j) ==
    IF ~JobDirExists(j) THEN NotFound
    ELSE LET meta == load_json(metaFile[j])
         IN  [job_id |-> Some(j),
              status |-> IF meta.status = "none" THEN "queued"
                         ELSE meta.status,
              created_at |-> IF meta.created_at = None THEN Some(clock)
                             ELSE meta.created_at,
              started_at |-> meta.started_at,
              finished_at |-> meta.finished_at,
              pid |-> meta.pid,
              exit_code |-> meta.exit_code,
              container_id |-> meta.container_id]

\* One call of get(id) on the controller in service, at any moment and for
\* any id.
Get(j) ==
    /\ getRes' = [getRes EXCEPT ![instance][j] = get(j)]
    /\ UNCHANGED <<ctlVars, hubVars, rdVars, gw, instance, fnVars>>

\* ---- a new controller over the same jobs root (service.py:44-48)

\* The constructor if it cleared the jobs root.
RestartClearsRoot ==
    /\ instance < MaxRestarts
    /\ instance' = instance + 1
    /\ secretStore' = [j \in JobIds |-> <<>>]
    /\ hubBuffers' = [j \in JobIds |-> <<>>]
    /\ hubSubscribers' = [j \in JobIds |-> <<>>]
    /\ metaFile' = [j \in JobIds |-> AbsentFile]
    /\ UNCHANGED <<tmpFile, wfd, statusLog, keyFile, logOpen,
                   createPc, createMeta, jobReq, proc, procRc, sigterms, stops,
                   cancelPc, cancelMeta, cancelRets, finPc, finMeta, finRc,
                   finErr, clock>>
    /\ UNCHANGED <<queues, qState, pub, hist, rdVars, gw, getRes, fnVars>>

\* JobRunnerService(): safe_mkdir of the jobs root, which exists; an empty
\* secret store and a new LogHub.  The controller that serves the requests
\* from now on holds no secrets, buffers or subscribers; files, processes
\* and the threads of the first controller are as they were.
Restart ==
    /\ instance < MaxRestarts
    /\ instance' = instance + 1
    /\ secretStore' = [j \in JobIds |-> <<>>]
    /\ hubBuffers' = [j \in JobIds |-> <<>>]
    /\ hubSubscribers' = [j \in JobIds |-> <<>>]
    /\ UNCHANGED <<metaFile, tmpFile, wfd, statusLog, keyFile, logOpen,
                   createPc, createMeta, jobReq, proc, procRc, sigterms, stops,
                   cancelPc, cancelMeta, cancelRets, finPc, finMeta, finRc,
                   finErr, clock>>
    /\ UNCHANGED <<queues, qState, pub, hist, rdVars, gw, getRes, fnVars>>

\* ---- functions that read and change no state

NoCall == [op |-> "none", args |-> <<>>, result |-> <<>>]

FnInit == fn = NoCall

\* ---- the keep-alive comments of a stream (deployments.py:104-109, 133-135,
\* 207-211).  Which log and status events a tick yields is decided by the
\* rest of the loop; here it is an input of the tick.

\* No stream yet.  event_at, beat_at, quiet and since record what was
\* emitted: the time of the last event of any kind, the time of the last
\* keep-alive (of the start before the first), and for the last keep-alive
\* the seconds since the event before it and since the keep-alive before it.
NoBeat ==
    [pc |-> "none", now |-> 0, last_heartbeat |-> 0, event_at |-> 0,
     beat_at |-> 0, beats |-> 0, quiet |-> 0, since |-> 0]

BeatInit == beat = NoBeat

\* Lines 104-127: last_heartbeat = time.monotonic(), the first status event.
BeatStart ==
    /\ beat.pc = "none"
    /\ beat' = [beat EXCEPT !.pc = "loop",
                            !.last_heartbeat = beat.now,
                            !.event_at = beat.now,
                            !.beat_at = beat.now]
    /\ UNCHANGED <<ctlVars, hubVars, rdVars, gwVars, fn, calls>>

\* BeatTick without the assignment of line 208.
BeatTickNoReset(emits, sleep) ==
    /\ beat.pc = "loop"
    /\ beat.now + sleep <= MaxBeatTime
    /\ LET at  == IF emits THEN beat.now ELSE beat.event_at
           due == beat.now - beat.last_heartbeat >= HeartbeatSeconds
       IN  beat' = [beat EXCEPT
                       !.now = beat.now + sleep,
                       !.event_at = IF due THEN beat.now ELSE at,
                       !.beat_at = IF due THEN beat.now ELSE @,
                       !.beats = IF due THEN @ + 1 ELSE @,
                       !.quiet = IF due THEN beat.now - at ELSE @,
                       !.since = IF due THEN beat.now - beat.beat_at ELSE @]
    /\ UNCHANGED <<ctlVars, hubVars, rdVars, gwVars, fn, calls>>

\* Lines 133-211, a tick that does not leave the loop: it yields log or
\* status events (emits) or none, then the keep-alive comment when
\* time.monotonic() - last_heartbeat >= 10, which sets last_heartbeat; then
\* it sleeps, and `sleep` whole seconds have passed at the next tick.
BeatTick(emits, sleep) ==
    /\ beat.pc = "loop"
    /\ beat.now + sleep <= MaxBeatTime
    /\ LET at  == IF emits THEN beat.now ELSE beat.event_at
           due == beat.now - beat.last_heartbeat >= HeartbeatSeconds
       IN  beat' = [beat EXCEPT
                       !.now = beat.now + sleep,
                       !.last_heartbeat = IF due THEN beat.now ELSE @,
                       !.event_at = IF due THEN beat.now ELSE at,
                       !.beat_at = IF due THEN beat.now ELSE @,
                       !.beats = IF due THEN @ + 1 ELSE @,
                       !.quiet = IF due THEN beat.now - at ELSE @,
                       !.since = IF due THEN beat.now - beat.beat_at ELSE @]
    /\ UNCHANGED <<ctlVars, hubVars, rdVars, gwVars, fn, calls>>

\* Lines 134-135 and 203: the loop is left, by a disconnect or after done.
BeatEnd ==
    /\ beat.pc = "loop"
    /\ beat' = [beat EXCEPT !.pc = "closed"]
    /\ UNCHANGED <<ctlVars, hubVars, rdVars, gwVars, fn, calls>>

NextBeat ==
    \/ BeatStart
    \/ \E emits \in BOOLEAN, sleep \in 0..MaxTick : BeatTick(emits, sleep)
    \/ BeatEnd

\* ---- the container command (container_runner.py:115-164).  An element of
\* the command is the sequence of the pieces it is formatted from.

\* shlex.quote: a string of safe characters as it is, any other in single
\* quotes (none of the arguments used here holds a single quote).
UnsafeArgs == {"", "two words"}

ShlexQuote(arg) == IF arg \in UnsafeArgs THEN <<"'", arg, "'">> ELSE <<arg>>

\* " ".join(shlex.quote(arg) for arg in cli_args)
RECURSIVE JoinQuoted(_)
JoinQuoted(cli_args) ==
    IF cli_args = <<>> THEN <<>>
    ELSE ShlexQuote(Head(cli_args))
         \o (IF Len(cli_args) > 1 THEN <<" ">> ELSE <<>>)
         \o JoinQuoted(Tail(cli_args))

\* The configurations, docker binaries and argument lists of the calls.
ContainerConfigs ==
    [image : {"infinito-arch"},
     repo_dir : {"/opt/src/infinito"},
     workdir : {"/workspace", "two words"},
     network : {None, Some("infinito")},
     extra_args : {<<>>, <<"--cpus", "1">>, <<"-e", "TERM=dumb">>},
     repo_host_path : {None, Some("/srv/infinito")}]

DockerBins == {"docker", "docker.io"}

CliArgLists ==
    {<<>>, <<"infinito", "deploy", "dedicated">>, <<"echo", "two words">>}

\* build_container_command, lines 126-164; docker_bin is what
\* resolve_docker_bin returned, the host job directory is STATE_HOST_PATH
\* followed by jobs/<job_id>.
build_container_command(job_id, cli_args, cfg, docker_bin) ==
    LET container_name == <<"infinito-job-", job_id>>
        inner_cmd == <<"export PATH=">> \o ShlexQuote(cfg.workdir)
                     \o <<":$PATH; ">> \o JoinQuoted(cli_args)
        host_job_dir == <<"/host/state", "/jobs/", job_id>>
    IN  << <<docker_bin>>, <<"run">>, <<"--rm">>, <<"--name">>,
           container_name >>
        \o (IF cfg.network # None
            THEN << <<"--network">>, <<cfg.network[1]>> >> ELSE <<>>)
        \o [i \in 1..Len(cfg.extra_args) |-> <<cfg.extra_args[i]>>]
        \o << <<"-v">>, host_job_dir \o <<":", cfg.workdir>> >>
        \o (IF cfg.repo_host_path # None
            THEN << <<"-v">>,
                    <<cfg.repo_host_path[1], ":", cfg.repo_dir, ":ro">> >>
            ELSE <<>>)
        \o << <<"-e">>, <<"PYTHONPATH=", cfg.repo_dir>>, <<"-w">>,
              <<cfg.repo_dir>>, <<cfg.image>>, <<"/bin/bash">>, <<"-lc">>,
              inner_cmd >>

\* One call of build_container_command.
BuildContainerCommand(job_id, cli_args, cfg, docker_bin) ==
    /\ fn' = [op |-> "build_container_command",
              args |-> <<job_id, cli_args, cfg, docker_bin>>,
              result |-> build_container_command(job_id, cli_args, cfg,
                                                 docker_bin)]
    /\ UNCHANGED <<ctlVars, hubVars, rdVars, gwVars, beat, calls>>

NextContainer ==
    \E job_id \in JobIds, cli_args \in CliArgLists,
       cfg \in ContainerConfigs, docker_bin \in DockerBins :
        BuildContainerCommand(job_id, cli_args, cfg, docker_bin)

\* ---- the two line splitters on the same buffer (runner.py:83-102 and
\* deployments.py:66-86)

\* The buffers: every text of up to MaxSplitLen characters.
SplitChars == {"a", LF, CR}

SplitInputs == UNION {[1..n -> SplitChars] : n \in 0..MaxSplitLen}

\* One call of each splitter on the buffer.
SplitBuffer(buffer) ==
    /\ fn' = [op |-> "split", args |-> buffer,
              result |-> [stream |-> split_stream_buffer(buffer),
                          log |-> split_log_lines(buffer)]]
    /\ UNCHANGED <<ctlVars, hubVars, rdVars, gwVars, beat, calls>>

NextSplit == \E buffer \in SplitInputs : SplitBuffer(buffer)

\* ---- the reader loop as a function of the chunks os.read returns
\* (runner.py:148-158)

\* The bytes 0xC3 and 0xA9, which are U+00E9 in UTF-8 when they follow one
\* another; the other bytes are ASCII.
LeadByte == "C3"
ContByte == "A9"
ReadBytes == {"a", LF, CR, LeadByte, ContByte}

\* U+00E9 and U+FFFD, the replacement character.
EAcute == "U+00E9"
Replacement == "U+FFFD"

\* bytes.decode("utf-8", errors="replace") of one chunk (runner.py:153): a
\* lead byte with its continuation byte is one character, a lead byte
\* without one (also at the end of the chunk) and a continuation byte on
\* its own are each replaced by U+FFFD.
RECURSIVE decode(_)
decode(chunk) ==
    IF chunk = <<>> THEN <<>>
    ELSE IF Len(chunk) >= 2 /\ chunk[1] = LeadByte /\ chunk[2] = ContByte
         THEN <<EAcute>> \o decode(SubSeq(chunk, 3, Len(chunk)))
    ELSE IF chunk[1] \in {LeadByte, ContByte}
         THEN <<Replacement>> \o decode(Tail(chunk))
    ELSE <<chunk[1]>> \o decode(Tail(chunk))

\* Lines 149-156 without _emit: the lines handed to _emit while the chunks
\* are read, and buf at the end of the file.
RECURSIVE reader_loop(_, _)
reader_loop(chunks, buf) ==
    IF chunks = <<>> THEN [lines |-> <<>>, buffer |-> buf]
    ELSE LET split == split_stream_buffer(buf \o decode(Head(chunks)))
             rest  == reader_loop(Tail(chunks), split.buffer)
         IN  [lines |-> split.lines \o rest.lines, buffer |-> rest.buffer]

\* Lines 149-158: every line handed to _emit, the rest of the buffer at the
\* end of the file included.
reader_emits(chunks) ==
    LET r == reader_loop(chunks, <<>>)
    IN  r.lines \o (IF r.buffer = <<>> THEN <<>> ELSE <<r.buffer>>)

\* The output cut into chunks after the positions in cuts.
RECURSIVE ChunksFrom(_, _, _)
ChunksFrom(output, cuts, i) ==
    IF i > Len(output) THEN <<>>
    ELSE LET ends == {k \in i..Len(output) : k \in cuts \/ k = Len(output)}
             e    == CHOOSE k \in ends : \A m \in ends : k <= m
         IN  <<SubSeq(output, i, e)>> \o ChunksFrom(output, cuts, e + 1)

ReadOutputs == UNION {[1..n -> ReadBytes] : n \in 1..MaxReadLen}

\* One run of the reader loop over the output of a process, read in the
\* chunks given by cuts, next to a run that reads it in one chunk.
ReadChunks(output, cuts) ==
    /\ fn = NoCall
    /\ fn' = [op |-> "reader",
              args |-> ChunksFrom(output, cuts, 1),
              result |-> [chunked |-> reader_loop(ChunksFrom(output, cuts, 1),
                                                  <<>>),
                          whole |-> reader_loop(<<output>>, <<>>),
                          emits |-> reader_emits(ChunksFrom(output, cuts, 1)),
                          emits_whole |-> reader_emits(<<output>>)]]
    /\ UNCHANGED <<ctlVars, hubVars, rdVars, gwVars, beat, calls>>

NextChunks ==
    \E output \in ReadOutputs, cuts \in SUBSET (1..(MaxReadLen - 1)) :
        ReadChunks(output, cuts)

\* ---- mask_secrets as a function of its arguments (secrets.py:87-110)

\* One call of mask_secrets; the result is the set of its possible values.
MaskSecrets(text, secrets) ==
    /\ fn = NoCall
    /\ fn' = [op |-> "mask_secrets", args |-> <<text, secrets>>,
              result |-> mask_secrets(text, secrets)]
    /\ UNCHANGED <<ctlVars, hubVars, rdVars, gwVars, beat, calls>>

\* Secrets over two letters and the character of the mask, and what stands
\* before and after the longer secret in the text.
PairChars == {"a", "b", "*"}

Pads == {<<>>, <<"a">>, <<"b">>, <<SP>>}

PairTexts(n) == UNION {[1..k -> PairChars] : k \in 1..n}

\* The pairs <<A, B>> of secrets with A a proper substring of B.
SecretPairs ==
    UNION { { <<SubSeq(B, i, k), B>> :
                i \in 1..Len(B), k \in 1..Len(B) } \ {<<<<>>, B>>, <<B, B>>} :
            B \in PairTexts(MaxSecretLen) }

\* What stands around B in the text: nothing when A is made of asterisks (the
\* text then grows by a mask marker for every asterisk of a mask marker).
PadsFor(pair) ==
    IF \A n \in 1..Len(pair[1]) : pair[1][n] = "*" THEN {<<>>} ELSE Pads

\* Runs of token characters around TokenMinLen characters long: letters only,
\* digits only, letters and digits.
TokenRun(kind, n) ==
    [i \in 1..n |-> IF kind = "letters" THEN "a"
                    ELSE IF kind = "digits" THEN "1"
                    ELSE IF i % 2 = 1 THEN "a" ELSE "1"]

TokenRuns ==
    { TokenRun(kind, n) : kind \in {"letters", "digits", "mixed"},
                          n \in (TokenMinLen - 1)..(TokenMinLen + MaxRunExtra) }

\* Three segments joined by dots, the first a short or a long run.
JwtTexts == { s \o <<".", "b", ".", "c">> : s \in TokenRuns \cup {<<"a">>} }

TokenPre == {<<>>, <<"x">>, <<"x", SP>>}

TokenPost == {<<>>, <<"/">>, <<SP, "y">>}

TokenTexts ==
    { pre \o body \o post :
        pre \in TokenPre, body \in TokenRuns \cup JwtTexts, post \in TokenPost }

\* "token=", a key of the first inline pattern (secrets.py:25-27).
TokenEq == <<"t", "o", "k", "e", "n", "=">>

NextMaskFn ==
    \/ \E pair \in SecretPairs :
          \E pre \in PadsFor(pair), post \in PadsFor(pair) :
              MaskSecrets(pre \o pair[2] \o post, pair)
    \/ \E text \in TokenTexts : MaskSecrets(text, <<>>)
    \/ \E pre \in Pads \cup {TokenEq}, post \in Pads,
          s \in PairTexts(MaxSecretLen) :
           MaskSecrets(pre \o s \o post, <<s>>)

\* ---- the hub on its own: one publisher per job, subscribers that come and
\* go, consumers that take lines off their queues

HubPublishCall(j) ==
    /\ Len(hist.published[j]) < MaxLines
    /\ PublishLock(j, NumberedLine(Len(hist.published[j]) + 1))
    /\ UNCHANGED <<ctlVars, rdVars, gwVars, fnVars>>

HubSubscribe(j, q) ==
    /\ Subscribe(j, q)
    /\ UNCHANGED <<ctlVars, rdVars, gwVars, fnVars>>

HubUnsubscribe(j, q) ==
    /\ qState[q] = "subscribed"
    /\ hist.job[q] = j
    /\ Unsubscribe(j, q)
    /\ UNCHANGED <<ctlVars, rdVars, gwVars, fnVars>>

\* q.get_nowait() by the queue's consumer.
QueueGet(q) ==
    /\ qState[q] = "subscribed"
    /\ queues[q] # <<>>
    /\ queues' = [queues EXCEPT ![q] = Tail(@)]
    /\ UNCHANGED <<hubBuffers, hubSubscribers, qState, pub, hist>>
    /\ UNCHANGED <<ctlVars, rdVars, gwVars, fnVars>>

\* unsubscribe if it dropped the job's whole list
\* (self._subscribers.pop(job_id) in place of lines 41-43).
unsubscribe_drops_list(j, q) ==
    /\ hubSubscribers' = [hubSubscribers EXCEPT ![j] = <<>>]
    /\ qState' = IF SeqHas(hubSubscribers[j], q)
                 THEN [qState EXCEPT ![q] = "unsubscribed"] ELSE qState
    /\ UNCHANGED <<hubBuffers, queues, pub, hist>>

\* unsubscribe (log_hub.py:36-43) called with any job id and any queue: a
\* job without subscribers returns at line 40; otherwise the list is
\* rebuilt without q, and a list left empty is popped.
unsubscribe(j, q) ==
    /\ hubSubscribers' =
           IF hubSubscribers[j] = <<>> THEN hubSubscribers
           ELSE [hubSubscribers EXCEPT ![j] = Without(@, q)]
    /\ qState' = IF SeqHas(hubSubscribers[j], q)
                 THEN [qState EXCEPT ![q] = "unsubscribed"] ELSE qState
    /\ UNCHANGED <<hubBuffers, queues, pub, hist>>

\* A call of unsubscribe by anyone, at any moment; it returns None.
HubUnsubscribeCall(j, q) ==
    /\ unsubscribe(j, q)
    /\ fn' = [op |-> "unsubscribe", args |-> <<j, q>>, result |-> None]
    /\ UNCHANGED <<ctlVars, rdVars, gwVars, beat, calls>>

\* ---- publish called by several threads at once (log_hub.py:16-27)

CallsInit == calls = <<>>

\* The calls that have not returned.
InProgress == {i \in 1..Len(calls) : calls[i].pc = "deliver"}

\* publish, lines 17-20, in a thread of its own: under the lock, append to
\* the job's buffer and copy the list of subscribers.
ThreadPublishLock(j) ==
    /\ Len(calls) < MaxCalls
    /\ Cardinality(InProgress) < MaxPublishers
    /\ LET line == NumberedLine(Len(calls) + 1)
       IN  /\ hubBuffers' = [hubBuffers EXCEPT ![j] = DequeAppend(@, line)]
           /\ hist' = [hist EXCEPT !.published[j] = Append(@, line)]
           /\ calls' = Append(calls, [job |-> j, pc |-> "deliver",
                                      line |-> line,
                                      targets |-> hubSubscribers[j],
                                      during |-> InProgress])
    /\ UNCHANGED <<hubSubscribers, queues, qState, pub>>
    /\ UNCHANGED <<ctlVars, rdVars, gwVars, fn, beat>>

\* publish, lines 22-27, outside the lock: one put_nowait per copied
\* subscriber; queue.Full skips the subscriber.
ThreadDeliver(i) ==
    /\ i \in DOMAIN calls
    /\ calls[i].targets # <<>>
    /\ LET q == Head(calls[i].targets)
       IN  IF Len(queues[q]) < QueueMaxSize
           THEN /\ queues' = [queues EXCEPT ![q] = Append(@, calls[i].line)]
                /\ hist' = [hist EXCEPT !.delivered[q] = Append(@, calls[i].line)]
           ELSE /\ queues' = queues
                /\ hist' = [hist EXCEPT !.dropped[q] = Append(@, calls[i].line)]
    /\ calls' = [calls EXCEPT ![i].targets = Tail(@)]
    /\ UNCHANGED <<hubBuffers, hubSubscribers, qState, pub>>
    /\ UNCHANGED <<ctlVars, rdVars, gwVars, fn, beat>>

\* publish returning before the loop of lines 22-27 is over.
ThreadReturnBeforeDelivery(i) ==
    /\ i \in DOMAIN calls
    /\ calls[i].pc = "deliver"
    /\ calls' = [calls EXCEPT ![i].pc = "returned"]
    /\ UNCHANGED <<hubVars, ctlVars, rdVars, gwVars, fn, beat>>

\* publish returns once the loop of lines 22-27 is over.
ThreadReturn(i) ==
    /\ i \in DOMAIN calls
    /\ calls[i].pc = "deliver"
    /\ calls[i].targets = <<>>
    /\ calls' = [calls EXCEPT ![i].pc = "returned"]
    /\ UNCHANGED <<hubVars, ctlVars, rdVars, gwVars, fn, beat>>

\* ---- the controller specification

Create(j) ==
    \/ \E req \in Requests, backend \in {"local", "container"} :
          CreateSetup(j, req, backend)
    \/ CreateConfigError(j)
    \/ CreateLaunch(j)
    \/ CreateLaunchFails(j)
    \/ CreateReturn(j)

Cancel(j) ==
    \/ CancelNotFound(j)
    \/ CancelTerminalNoop(j)
    \/ CancelLoad(j)
    \/ CancelTerminate(j)
    \/ CancelOpen(j)
    \/ CancelWrite(j)
    \/ CancelReplace(j)
    \/ CancelReplaceRaises(j)
    \/ CancelUnlink(j)
    \/ CancelPop(j)

Finalize(j) ==
    \/ FinWait(j)
    \/ FinClose(j)
    \/ FinUnlink(j)
    \/ FinPop(j)
    \/ FinLoad(j)
    \/ FinOpen(j)
    \/ FinWrite(j)
    \/ FinReplace(j)
    \/ FinReplaceRaises(j)

Init ==
    CtlInit /\ HubInit /\ RdInit /\ GwInit /\ FnInit /\ BeatInit /\ CallsInit

SpecContainer == Init /\ [][NextContainer]_vars

SpecSplit == Init /\ [][NextSplit]_vars

SpecBeat == Init /\ [][NextBeat]_vars

SpecMaskFn == Init /\ [][NextMaskFn]_vars

SpecChunks == Init /\ [][NextChunks]_vars

Next ==
    \E j \in SpecJobs :
        \/ Create(j)
        \/ \E rc \in ExitCodes : ProcExit(j, rc)
        \/ Cancel(j)
        \/ Finalize(j)
        \/ \E u \in JobIds \ SpecJobs : CancelNotFound(u)

Spec == Init /\ [][Next]_vars

\* The steps a cancel call takes once it has loaded the record (lines
\* 243-260): the thread serving the call runs on.
CancelRun(j) ==
    \/ CancelTerminate(j)
    \/ CancelOpen(j)
    \/ CancelWrite(j)
    \/ CancelReplace(j)
    \/ CancelReplaceRaises(j)
    \/ CancelUnlink(j)
    \/ CancelPop(j)

\* Spec with its threads scheduled fairly: the finalizer thread of a job
\* (service.py:193-199) and a cancel call in progress take their next step.
SpecLive ==
    /\ Spec
    /\ \A j \in SpecJobs : WF_vars(Finalize(j)) /\ WF_vars(CancelRun(j))

NextFault == Next \/ \E j \in SpecJobs : FinWaitRaises(j)

SpecFault == Init /\ [][NextFault]_vars

NextHub ==
    \E j \in SpecJobs :
        \/ HubPublishCall(j)
        \/ HubDeliver(j)
        \/ HubPublishReturn(j)
        \/ \E q \in QueueIds : HubSubscribe(j, q)
        \/ \E q \in QueueIds : HubUnsubscribe(j, q)
        \/ \E q \in QueueIds : QueueGet(q)

SpecHub == Init /\ [][NextHub]_vars

\* The hub with unsubscribe also called a second time, for a job without
\* subscribers and for a queue that was never subscribed.
NextUnsubscribe ==
    \/ NextHub
    \/ \E j \in JobIds, q \in QueueIds : HubUnsubscribeCall(j, q)

SpecUnsubscribe == Init /\ [][NextUnsubscribe]_vars

\* ---- the hub with up to MaxPublishers threads inside publish for one job

NextPublishers ==
    \/ \E j \in SpecJobs : ThreadPublishLock(j)
    \/ \E i \in 1..MaxCalls : ThreadDeliver(i)
    \/ \E i \in 1..MaxCalls : ThreadReturn(i)
    \/ \E j \in SpecJobs, q \in QueueIds : HubSubscribe(j, q)

SpecPublishers == Init /\ [][NextPublishers]_vars

\* ---- the job's output on its way to job.log: create, the process, the
\* reader thread and the finalizer

NextReader ==
    \E j \in SpecJobs :
        \/ Create(j)
        \/ \E c \in AllOutChars : ProcWrite(j, c)
        \/ \E rc \in ExitCodes : ProcExit(j, rc)
        \/ Reader(j)
        \/ HubPublishReturn(j)
        \/ FinWait(j)
        \/ FinClose(j)
        \/ FinUnlink(j)
        \/ FinPop(j)
        \/ FinLoad(j)
        \/ FinOpen(j)
        \/ FinWrite(j)
        \/ FinReplace(j)

SpecReader == Init /\ [][NextReader]_vars

\* ---- the job's output on its way to job.log and through the hub to a
\* subscriber: create, the process, the reader thread, publish with its
\* deliveries, a connection that subscribes at any moment, and the finalizer
\* up to the close of the log file

NextMask ==
    \E j \in SpecJobs :
        \/ \E req \in Requests : CreateSetup(j, req, "local")
        \/ CreateLaunch(j)
        \/ \E c \in AllOutChars : ProcWrite(j, c)
        \/ ProcExit(j, 0)
        \/ Reader(j)
        \/ HubDeliver(j)
        \/ HubPublishReturn(j)
        \/ HubSubscribe(j, "q1")
        \/ FinWait(j)
        \/ FinClose(j)

SpecMask == Init /\ [][NextMask]_vars

\* ---- the controller with its readers: Spec and get calls at any moment

NextGet ==
    \/ Next
    \/ \E j \in JobIds : Get(j)

SpecGet == Init /\ [][NextGet]_vars

\* ---- jobs that are created, run and are finalized, with get calls at any
\* moment and the construction of a new controller at any moment

NextRestart ==
    \/ \E j \in SpecJobs :
          \/ Create(j)
          \/ \E rc \in ExitCodes : ProcExit(j, rc)
          \/ FinWait(j)
          \/ FinClose(j)
          \/ FinUnlink(j)
          \/ FinPop(j)
          \/ FinLoad(j)
          \/ FinOpen(j)
          \/ FinWrite(j)
          \/ FinReplace(j)
    \/ \E j \in JobIds : Get(j)
    \/ Restart

SpecRestart == Init /\ [][NextRestart]_vars

\* ---- two jobs side by side: each is created with a key and runs while its
\* reader publishes up to PairLines lines and one connection subscribes to
\* it; once both have done so one of the two exits or is canceled (at most
\* PairCancels times) and is finalized while the other goes on running

KeyRequest == CHOOSE req \in Requests : req.method = "private_key"

\* The queue of the connection that streams job j.
QueueOf(j) == IF j = "j1" THEN "q1" ELSE "q2"

\* The process of job j has exited or cancel(j) has been called.
Ending(j) == proc[j] = "exited" \/ cancelRets[j] # <<>>

\* The end of job j may begin once every job runs, has had its PairLines
\* lines published and has had its connection subscribed, and while no
\* other job is ending.
MayEnd(j) ==
    /\ \A k \in JobIds :
          /\ createPc[k] = "returned"
          /\ Len(hist.published[k]) = PairLines
          /\ pub[k].pc = "idle"
          /\ qState[QueueOf(k)] # "free"
    /\ \A k \in JobIds \ {j} : ~Ending(k)

PairProcExit(j) == MayEnd(j) /\ ProcExit(j, 0)

PairCancel(j) ==
    \/ MayEnd(j) /\ Len(cancelRets[j]) < PairCancels /\ CancelTerminalNoop(j)
    \/ MayEnd(j) /\ Len(cancelRets[j]) < PairCancels /\ CancelLoad(j)
    \/ CancelTerminate(j)
    \/ CancelOpen(j)
    \/ CancelWrite(j)
    \/ CancelReplace(j)
    \/ CancelReplaceRaises(j)
    \/ CancelUnlink(j)
    \/ CancelPop(j)

PairPublish(j) ==
    /\ rd[j].pc = "read"
    /\ proc[j] = "running"
    /\ Len(hist.published[j]) < PairLines
    /\ PublishLock(j, NumberedLine(Len(hist.published[j]) + 1))
    /\ UNCHANGED <<ctlVars, rdVars, gwVars, fnVars>>

PairSubscribe(j) ==
    /\ JobDirExists(j)
    /\ HubSubscribe(j, QueueOf(j))

NextPair ==
    \E j \in JobIds :
        \/ CreateSetup(j, KeyRequest, "local")
        \/ CreateLaunch(j)
        \/ CreateReturn(j)
        \/ PairProcExit(j)
        \/ PairCancel(j)
        \/ Finalize(j)
        \/ PairPublish(j)
        \/ HubDeliver(j)
        \/ HubPublishReturn(j)
        \/ PairSubscribe(j)
        \/ HubUnsubscribe(j, QueueOf(j))

SpecPair == Init /\ [][NextPair]_vars

\* ---- a job and the connections that stream its log: create without a
\* launch error, the process, the reader thread, the hub, the finalizer and
\* the connections

StreamConns == {"q1"}

NextStream ==
    \E j \in SpecJobs :
        \/ CreateSetup(j, KeyRequest, "local")
        \/ CreateLaunch(j)
        \/ ProcWriteLine(j)
        \/ \E rc \in ExitCodes : ProcExit(j, rc)
        \/ Reader(j)
        \/ HubDeliver(j)
        \/ HubPublishReturn(j)
        \/ FinWait(j)
        \/ FinClose(j)
        \/ FinUnlink(j)
        \/ FinPop(j)
        \/ FinLoad(j)
        \/ FinOpen(j)
        \/ FinWrite(j)
        \/ FinReplace(j)
        \/ \E c \in StreamConns : Gateway(c)

SpecStream == Init /\ [][NextStream]_vars

\* event_stream is suspended at a yield or at the sleep of line 211, or has
\* not yet run line 105; in each of these GwRun has a step to take.
GwRunning(c) == gw[c].pc \in {"start", "replay", "drain", "status"}

\* SpecStream with the generator of every connection scheduled fairly: weak
\* fairness of GwRun(c), with GwRunning(c) written for ENABLED <<GwRun(c)>>_vars.
SpecStreamLive ==
    /\ SpecStream
    /\ \A c \in StreamConns :
           []<>(~GwRunning(c)) \/ []<><<GwRun(c)>>_vars

\* ------------------------------------------------------- controller claims

\* No thread of the job is inside create, cancel or the finalizer.
Quiescent(j) ==
    /\ createPc[j] \in {"returned", "config_error", "launch_failed"}
    /\ cancelPc[j] = "idle"
    /\ finPc[j] \in {"none", "done", "raised"}

\* C1: once job.json holds succeeded, failed or canceled, every later readable
\* record of the job holds the same status.
C1_TerminalStatusNeverReplaced ==
    [][\A j \in JobIds :
          (IsTerminal(PersistedStatus(j)) /\ PersistedStatus(j)' # "none")
              => PersistedStatus(j)' = PersistedStatus(j)]_vars

\* A cancel call that loaded status running has returned True.
CancelOfRunningReturnedTrue(j) ==
    \E i \in 1..Len(cancelRets[j]) :
        cancelRets[j][i] = [ret |-> "true", loaded |-> "running"]

\* C2: after a cancel of a running job returned True and the finalizer has
\* completed, the finalizer has not left succeeded or failed in job.json.
C2_CancelWinsRace ==
    \A j \in JobIds :
        (CancelOfRunningReturnedTrue(j) /\ finPc[j] = "done")
            => PersistedStatus(j) \notin {"succeeded", "failed"}

\* C3: every cancel call on a job that has a metadata record returns True,
\* and a call that finds the job terminal sends no signal and leaves job.json,
\* the key file and the secret store as they are.
C3_CancelIdempotent ==
    [][\A j \in SpecJobs :
          /\ \A i \in 1..Len(cancelRets'[j]) :
                 cancelRets'[j][i].ret \in {"true", "pending"}
          /\ (/\ Len(cancelRets'[j]) > Len(cancelRets[j])
              /\ IsTerminal(cancelRets'[j][Len(cancelRets'[j])].loaded))
                 => UNCHANGED <<sigterms[j], stops[j], metaFile[j],
                                keyFile[j], secretStore[j]>>]_vars

\* C5: once a job is terminal and the operation that made it so has completed,
\* the secret store holds no entry for it.
C5_NoSecretsOnceTerminal ==
    \A j \in JobIds :
        (Quiescent(j) /\ IsTerminal(PersistedStatus(j)))
            => secretStore[j] = <<>>

\* C6: with key auth, id_rsa exists whenever job.json says running and is
\* absent once the job is terminal and the operation that made it so is over.
C6_KeyLifecycle ==
    \A j \in JobIds :
        jobReq[j].method = "private_key"
            => /\ PersistedStatus(j) = "running" => keyFile[j]
               /\ (Quiescent(j) /\ IsTerminal(PersistedStatus(j)))
                      => ~keyFile[j]

\* C9: after a failed launch job.json holds failed / 127 / a finished_at, no
\* finalizer and no process exist, and the statuses job.json has held are
\* queued, then failed.
C9_LaunchFailure ==
    \A j \in JobIds :
        createPc[j] = "launch_failed"
            => /\ load_json(metaFile[j]).status = "failed"
               /\ load_json(metaFile[j]).exit_code = Some(127)
               /\ load_json(metaFile[j]).finished_at # None
               /\ load_json(metaFile[j]).started_at = None
               /\ finPc[j] = "none"
               /\ proc[j] = "none"
               /\ statusLog[j] = <<"queued", "failed">>

\* C9 witness: a launch has failed and a cancel was called on the job since.
C9_Witness ==
    \E j \in JobIds :
        /\ createPc[j] = "launch_failed"
        /\ Len(cancelRets[j]) > 0

\* C10: a job whose finalizer has ended is not left with status running.
C10_FinalizerLeavesTerminal ==
    \A j \in JobIds :
        finPc[j] \in {"done", "raised"} => PersistedStatus(j) # "running"

\* ---- the Log Hub claims

\* Position of a line in a sequence of distinct lines (0 if absent).
PosIn(s, x) == IF SeqHas(s, x) THEN CHOOSE i \in 1..Len(s) : s[i] = x ELSE 0

\* What a subscriber has been handed so far: the snapshot, then every line
\* put on its queue.
Handed(q) == hist.snapshot[q] \o hist.delivered[q]

\* The lines published to q's job before q subscribed.
HubGapFree(q) ==
    LET j == hist.job[q]
        P == hist.published[j]
        k == hist.subAt[q]
        S == hist.snapshot[q]
        D == hist.delivered[q]
        H == Handed(q)
    IN  \* the snapshot is what was published before and not evicted
        /\ S = SubSeq(P, k - Min(k, BufferSize) + 1, k)
        \* never in both, and only later lines reach the queue
        /\ \A i \in 1..Len(D) : PosIn(P, D[i]) > k /\ ~SeqHas(S, D[i])
        \* never in neither: a later line is on the queue's record, was
        \* skipped because the queue was full, or is still being delivered
        /\ \A i \in (k + 1)..Len(P) :
              \/ SeqHas(D, P[i])
              \/ SeqHas(hist.dropped[q], P[i])
              \/ /\ pub[j].pc = "deliver"
                 /\ pub[j].line = P[i]
                 /\ SeqHas(pub[j].targets, q)
        \* publish order
        /\ \A a, b \in 1..Len(H) : a < b => PosIn(P, H[a]) < PosIn(P, H[b])

\* C7: for every registered subscriber, each line published to its job is in
\* the snapshot (published before the subscription, not yet evicted) or on
\* the queue (published after, queue not full), never in both and never in
\* neither, and the snapshot followed by the queue is in publish order.
C7_SubscribeGapFree ==
    \A q \in QueueIds : qState[q] = "subscribed" => HubGapFree(q)

\* A subscriber that joined after an eviction, between the lock phase and
\* the delivery of a line, and has since been handed later lines.
C7_Witness ==
    \E q \in QueueIds :
        /\ qState[q] = "subscribed"
        /\ hist.subAt[q] > BufferSize
        /\ Len(hist.snapshot[q]) = BufferSize
        /\ Len(hist.delivered[q]) >= 1
        /\ Len(hist.published[hist.job[q]]) = MaxLines
        /\ pub[hist.job[q]].pc = "idle"

\* ---- the masking claims

\* The password, the private key and the non-blank lines of the key.
SecretsOf(req) ==
    LET lines == SplitLines(req.private_key)
    IN  ({req.password, req.private_key} \ {<<>>})
        \cup {lines[i] : i \in {n \in 1..Len(lines) : Strip(lines[n]) # <<>>}}

\* C4: whatever the process writes and however the reads divide it, neither
\* the password, nor the private key, nor a non-blank line of the key occurs
\* verbatim in job.log.
C4_NoSecretInLog ==
    \A j \in SpecJobs :
        \A s \in SecretsOf(jobReq[j]) : ~Contains(logFile[j].text, s)

\* ---- the streaming claims

\* The lines of the log events a connection has emitted, in order.
RECURSIVE LinesOf(_)
LinesOf(events) ==
    IF events = <<>> THEN <<>>
    ELSE (IF Head(events).event = "log" THEN <<Head(events).line>> ELSE <<>>)
         \o LinesOf(Tail(events))

\* The number of the line the process wrote as its n-th line (0 for a text
\* that is no such line).
LineNo(line) ==
    IF \E n \in 1..Len(DigitChars) : line = NumberedLine(n)
    THEN CHOOSE n \in 1..Len(DigitChars) : line = NumberedLine(n)
    ELSE 0

\* C8: on every tick, the log events of a connection follow the order in
\* which the process emitted the lines: no line is emitted after a line the
\* process emitted later, and no line is emitted again.
C8_ReplayThenLive ==
    \A c \in QueueIds :
        LET emitted == LinesOf(gw[c].events)
        IN  \A a, b \in 1..Len(emitted) :
                a < b => LineNo(emitted[a]) < LineNo(emitted[b])

\* C11: a log stream that has ended, by any exit path, has left no queue in
\* the subscriber list of its job and no open handle on job.log.
C11_StreamReleasesSubscription ==
    \A c \in QueueIds :
        gw[c].pc = "closed" =>
            /\ ~SeqHas(hubSubscribers[gw[c].job], c)
            /\ gw[c].log_fh = None

\* The status of the last status event among the first n events.
RECURSIVE LastStatusBefore(_, _)
LastStatusBefore(events, n) ==
    IF n = 0 THEN "none"
    ELSE IF events[n].event = "status" THEN events[n].status
    ELSE LastStatusBefore(events, n - 1)

\* A done event of a connection is its last event, closes the stream and
\* carries a terminal status, that of the last status event.
DoneIsLast(c) ==
    LET events == gw[c].events
    IN  \A i \in 1..Len(events) :
            events[i].event = "done" =>
                /\ i = Len(events)
                /\ gw[c].pc = "closed"
                /\ events[i].status \in TERMINAL_STATUSES
                /\ events[i].status = LastStatusBefore(events, i - 1)

\* The step that emits a done event reads, in the same tick, a job.json with
\* a terminal status, and the event carries the status and the exit_code of
\* that read; after a done event nothing is emitted.
DoneFromSameRead(c) ==
    LET before == gw[c].events
        after  == gw'[c].events
        meta   == load_json(metaFile[gw[c].job])
    IN  /\ (before # <<>> /\ before[Len(before)].event = "done")
                => after = before
        /\ (after # before /\ after[Len(after)].event = "done")
                => /\ meta.status \in TERMINAL_STATUSES
                   /\ after[Len(after)].status = meta.status
                   /\ after[Len(after)].exit_code = meta.exit_code

\* C12: a log stream emits at most one done event, as its last event, on a
\* tick whose metadata read shows a terminal status; the event carries that
\* status, which is the status of the last status event, and the exit_code
\* of the same read.
C12_DoneOnceLastTerminal ==
    /\ [](\A c \in QueueIds : DoneIsLast(c))
    /\ [][\A c \in QueueIds : DoneFromSameRead(c)]_vars

\* A stream that showed the job running, emitted a log line and ended with
\* the done event of a job that exited with code 1.
C12_Witness ==
    \E c \in QueueIds :
        LET events == gw[c].events
        IN  /\ gw[c].pc = "closed"
            /\ Len(events) >= 4
            /\ events[Len(events)].event = "done"
            /\ events[Len(events)].status = "failed"
            /\ events[Len(events)].exit_code = Some(1)
            /\ \E i \in 1..Len(events) : events[i].event = "log"
            /\ \E i \in 1..Len(events) :
                  events[i].event = "status" /\ events[i].status = "running"

\* C13: a cancel call returns False only for an id with no job.json, and
\* that call sends no signal and changes no state; every value returned by
\* a call on a job that has a metadata record is True, also while the record
\* is rewritten.
C13_CancelFalseOnlyWithoutRecord ==
    [][\A j \in JobIds :
          LET rets == cancelRets'[j]
          IN  /\ (/\ Len(rets) > Len(cancelRets[j])
                  /\ rets[Len(rets)].ret = "false")
                     => /\ metaFile[j] = AbsentFile
                        /\ statusLog[j] = <<>>
                        /\ UNCHANGED <<metaFile, tmpFile, keyFile, secretStore,
                                       sigterms, stops, proc, hubVars>>
              /\ statusLog[j] # <<>>
                     => \A i \in 1..Len(rets) :
                            rets[i].ret \in {"true", "pending", "raised"}]_vars

\* A step in which get(j) gave an answer that differs from its last one.
GetAnswered(j) == getRes'[instance][j] # getRes[instance][j]

\* C14: get(id) answers NotFound exactly when there is no job directory;
\* otherwise it answers status, timestamps, pid and exit_code of the record
\* in job.json; and it leaves metadata, files, secret store, hub and process
\* as they are.
C14_GetSnapshot ==
    [][\A j \in JobIds :
          GetAnswered(j) =>
              LET meta == load_json(metaFile[j])
                  res  == getRes'[instance][j]
              IN  /\ res = NotFound <=> ~JobDirExists(j)
                  /\ res # NotFound =>
                        /\ res.status = meta.status
                        /\ res.created_at = meta.created_at
                        /\ res.started_at = meta.started_at
                        /\ res.finished_at = meta.finished_at
                        /\ res.pid = meta.pid
                        /\ res.exit_code = meta.exit_code
                  /\ UNCHANGED <<ctlVars, hubVars, rdVars, gw>>]_vars

\* What the controller and the hub hold for job j: its metadata record with
\* the temporary file beside it, its key file, its secret-store entry, its
\* replay buffer, its subscriber list and the queues registered to it.
JobState(j) ==
    <<metaFile[j], tmpFile[j], keyFile[j], secretStore[j], hubBuffers[j],
      hubSubscribers[j],
      [q \in {x \in QueueIds : hist.job[x] = j} |-> queues[q]]>>

\* C15: no step of an operation on one job changes what is held for another
\* job: a step changes the state of at most one job.
C15_JobIsolation ==
    [][\A a, b \in JobIds :
          (a # b /\ JobState(a)' # JobState(a)) => JobState(b)' = JobState(b)
      ]_vars

\* Job j1 was canceled while running and has ended without key file and
\* secrets, while job j2 still runs with its record, key file and secrets,
\* a line in its replay buffer and the line on its subscriber's queue.
C15_Witness ==
    /\ PersistedStatus("j1") = "canceled"
    /\ Quiescent("j1") /\ finPc["j1"] = "done"
    /\ ~keyFile["j1"] /\ secretStore["j1"] = <<>>
    /\ PersistedStatus("j2") = "running"
    /\ keyFile["j2"] /\ secretStore["j2"] # <<>>
    /\ hubBuffers["j2"] # <<>>
    /\ hubSubscribers["j2"] = <<"q2">>
    /\ queues["q2"] # <<>>

\* The files in the directory of job j, its process and its threads.
OnDisk(j) ==
    <<JobDirExists(j), metaFile[j], tmpFile[j], keyFile[j], logFile[j]>>

\* C16: the construction of a new controller over the jobs root starts no
\* process, changes no file of any job, and get answers for every job on the
\* new controller what it answered on the old one.
C16_RestartSurvives ==
    [][instance' # instance =>
          \A j \in JobIds :
              /\ OnDisk(j)' = OnDisk(j)
              /\ proc'[j] = proc[j]
              /\ get(j)' = get(j)]_vars

\* A second controller exists, the job was started by the first one, and get
\* on the second answers the job's record.
C16_Witness ==
    /\ instance = 1
    /\ \E j \in JobIds :
          /\ getRes[1][j].job_id = Some(j)
          /\ getRes[1][j].status = "running"
          /\ getRes[1][j].pid # None
          /\ getRes[1][j] = getRes[0][j]
          /\ secretStore[j] = <<>>
          /\ jobReq[j] # NoRequest

\* C17: every command build_container_command returns has the element
\* PYTHONUNBUFFERED=1.
C17_CommandSetsUnbuffered ==
    fn.op = "build_container_command" =>
        \E i \in 1..Len(fn.result) : fn.result[i] = <<"PYTHONUNBUFFERED=1">>

\* s is the lines in order, each followed by one LF or CR, followed by rest.
RECURSIVE Rejoins(_, _, _)
Rejoins(s, lines, rest) ==
    IF lines = <<>> THEN s = rest
    ELSE LET n == Len(Head(lines))
         IN  /\ Len(s) > n
             /\ SubSeq(s, 1, n) = Head(lines)
             /\ s[n + 1] \in {LF, CR}
             /\ Rejoins(SubSeq(s, n + 2, Len(s)), Tail(lines), rest)

NoLineBreak(text) == \A i \in 1..Len(text) : text[i] \notin {LF, CR}

\* C18: on every buffer the two line splitters return the same lines and
\* rest; no line and not the rest holds a LF or CR; the buffer is the lines,
\* each followed by exactly one LF or CR, followed by the rest.
C18_LineSplitters ==
    fn.op = "split" =>
        LET r == fn.result.stream
        IN  /\ fn.result.log = r
            /\ \A i \in 1..Len(r.lines) : NoLineBreak(r.lines[i])
            /\ NoLineBreak(r.buffer)
            /\ Rejoins(fn.args, r.lines, r.buffer)

\* a<CR>a<LF>a yields the lines a, a and the rest a, from both splitters.
C18_Witness ==
    /\ fn.op = "split"
    /\ fn.args = <<"a", CR, "a", LF, "a">>
    /\ fn.result.stream = [lines |-> << <<"a">>, <<"a">> >>, buffer |-> <<"a">>]
    /\ fn.result.log = fn.result.stream

\* The lock phase of a publish to job j: the line is the last of the replay
\* buffer and is bound for every queue subscribed at that moment, whatever
\* the queues hold; no queue changes.
LockStepKeepsLine(j) ==
    Len(hist.published'[j]) > Len(hist.published[j]) =>
        LET line == hist.published'[j][Len(hist.published'[j])]
        IN  /\ hubBuffers'[j] # <<>>
            /\ hubBuffers'[j][Len(hubBuffers'[j])] = line
            /\ pub'[j].line = line
            /\ pub'[j].targets = hubSubscribers[j]
            /\ queues' = queues

\* One turn of the delivery loop of job j: a full queue is left as it is
\* and the loop goes on with the next queue; a queue with room gets the line
\* at its end; no other queue and no buffer changes.
DeliverStepSkipsFull(j) ==
    (pub[j].pc = "deliver" /\ pub'[j].targets # pub[j].targets) =>
        LET q == Head(pub[j].targets)
        IN  /\ pub'[j].pc = "deliver"
            /\ pub'[j].targets = Tail(pub[j].targets)
            /\ Len(queues[q]) >= QueueMaxSize => queues'[q] = queues[q]
            /\ Len(queues[q]) < QueueMaxSize
                  => queues'[q] = Append(queues[q], pub[j].line)
            /\ \A r \in QueueIds \ {q} : queues'[r] = queues[r]
            /\ hubBuffers' = hubBuffers

\* C19: publish never waits for a subscriber: its delivery loop can always
\* take its next turn; a full queue is left unchanged, the line is in the
\* replay buffer all the same and reaches every other subscriber of the job
\* whose queue has room.
C19_SlowConsumerSkipped ==
    /\ [](\A j \in JobIds :
            (pub[j].pc = "deliver" /\ pub[j].targets # <<>>)
                => ENABLED HubDeliver(j))
    /\ [](\A q \in QueueIds : Len(queues[q]) <= QueueMaxSize)
    /\ [][\A j \in JobIds :
             LockStepKeepsLine(j) /\ DeliverStepSkipsFull(j)]_vars

\* A line that was skipped for the full queue of the first subscriber, is in
\* the replay buffer and was put on the queue of the second subscriber.
C19_Witness ==
    \E j \in JobIds : \E line \in {NumberedLine(n) : n \in 1..MaxLines} :
        /\ hubSubscribers[j] = <<"q1", "q2">>
        /\ Len(queues["q1"]) = QueueMaxSize
        /\ SeqHas(hist.dropped["q1"], line)
        /\ SeqHas(hubBuffers[j], line)
        /\ queues["q2"] # <<>>
        /\ queues["q2"][Len(queues["q2"])] = line
        /\ pub[j].pc = "idle"

\* C20: the replay buffer of every job holds at most BufferSize lines: the
\* last min(BufferSize, k) of the k lines published to the job, in publish
\* order.
C20_BoundedReplayBuffer ==
    \A j \in JobIds :
        LET P == hist.published[j]
            k == Len(P)
        IN  /\ Len(hubBuffers[j]) <= BufferSize
            /\ hubBuffers[j] = SubSeq(P, k - Min(BufferSize, k) + 1, k)

\* More lines than the buffer holds were published to a job while one
\* subscriber came and went and another is subscribed: the buffer holds the
\* last BufferSize of them.
C20_Witness ==
    \E j \in JobIds :
        /\ Len(hist.published[j]) = MaxLines
        /\ MaxLines > BufferSize
        /\ Len(hubBuffers[j]) = BufferSize
        /\ hubBuffers[j][BufferSize] = NumberedLine(MaxLines)
        /\ hubBuffers[j][1] = NumberedLine(MaxLines - BufferSize + 1)
        /\ \E q, r \in QueueIds :
              /\ qState[q] = "unsubscribed"
              /\ qState[r] = "subscribed"
              /\ hist.subAt[q] > 0

\* ---- claims about the fields of a record

\* A field that holds a value keeps it.
KeepsValue(old, new) == old # None => new = old

\* C21: from one readable job.json of a job to the next, each of started_at,
\* finished_at and exit_code that holds a value keeps that value: it is not
\* replaced by another value and not reset to null.
C21_SetOnceFields ==
    [][\A j \in JobIds :
          (load_json(metaFile[j]) # NoMeta /\ load_json(metaFile'[j]) # NoMeta)
              => /\ KeepsValue(load_json(metaFile[j]).started_at,
                               load_json(metaFile'[j]).started_at)
                 /\ KeepsValue(load_json(metaFile[j]).finished_at,
                               load_json(metaFile'[j]).finished_at)
                 /\ KeepsValue(load_json(metaFile[j]).exit_code,
                               load_json(metaFile'[j]).exit_code)]_vars

\* ---- claims about the reader thread

\* The lines the reader has read from the process of job j so far, at most:
\* the complete lines of the output, and the unterminated rest once the
\* process has exited and the pipe is drained.
RawLines(j) ==
    LET s == split_stream_buffer(procOut[j])
    IN  s.lines \o (IF s.buffer # <<>> /\ proc[j] = "exited" /\ pipe[j] = <<>>
                    THEN <<s.buffer>> ELSE <<>>)

\* out is, line by line, a result of mask_secrets on the first lines of raw.
MaskedPrefix(out, raw, secrets) ==
    /\ Len(out) <= Len(raw)
    /\ \A i \in 1..Len(out) : out[i] \in mask_secrets(raw[i], secrets)

\* C22: job.log consists of whole lines, which are, in order, mask_secrets
\* with the job's secrets of the first lines read from the job's process; the
\* lines handed to publish are the first lines of job.log; every line in the
\* job's replay buffer or in a queue subscribed to the job is one of the
\* lines handed to publish.
C22_MaskBeforeAdmit ==
    \A j \in JobIds :
        LET log == split_stream_buffer(logFile[j].text)
        IN  /\ log.buffer = <<>>
            /\ MaskedPrefix(log.lines, RawLines(j), collect_secrets(jobReq[j]))
            /\ Len(hist.published[j]) <= Len(log.lines)
            /\ hist.published[j] = SubSeq(log.lines, 1, Len(hist.published[j]))
            /\ \A i \in 1..Len(hubBuffers[j]) :
                   SeqHas(hist.published[j], hubBuffers[j][i])
            /\ \A q \in QueueIds :
                   hist.job[q] = j
                       => \A i \in 1..Len(queues[q]) :
                              SeqHas(hist.published[j], queues[q][i])

\* C22 witness: a line that holds the job's password was read from the
\* process, and the masked line, which differs from it, is in job.log, in
\* the replay buffer and in a subscriber's queue.
C22_Witness ==
    \E j \in JobIds :
        /\ jobReq[j].password # <<>>
        /\ RawLines(j) # <<>>
        /\ Contains(RawLines(j)[1], jobReq[j].password)
        /\ hubBuffers[j] # <<>>
        /\ hubBuffers[j][1] # RawLines(j)[1]
        /\ queues["q1"] = <<hubBuffers[j][1]>>
        /\ split_stream_buffer(logFile[j].text).lines = <<hubBuffers[j][1]>>

\* C23: a job whose record says running, and whose process has exited or on
\* which cancel has been called, eventually has a record with a terminal
\* status.
C23_EventuallyTerminal ==
    \A j \in SpecJobs :
        (/\ PersistedStatus(j) = "running"
         /\ (proc[j] = "exited" \/ cancelRets[j] # <<>>))
            ~> IsTerminal(PersistedStatus(j))

\* The status and the exit code of a record agree.
RecordConsistent(m) ==
    /\ m.status = "succeeded" => m.exit_code = Some(0)
    /\ m.status = "failed" => (m.exit_code # None /\ m.exit_code # Some(0))
    /\ m.status \in {"queued", "running"}
           => (m.finished_at = None /\ m.exit_code = None)

\* The record a finalizer that did not load canceled ends its write with.
FinalizerPersists(j) ==
    (/\ finPc[j] = "replace"
     /\ finPc'[j] # "replace"
     /\ finMeta[j].status # "canceled")
        => /\ metaFile'[j] = JsonFile(finMeta[j])
           /\ finMeta[j].exit_code = procRc[j]
           /\ finMeta[j].status =
                  (IF procRc[j] = Some(0) THEN "succeeded" ELSE "failed")

\* C24: in every readable job.json succeeded goes with exit_code 0, failed
\* with an exit_code other than null and 0, queued and running with
\* finished_at and exit_code null; and a finalizer that did not find the job
\* canceled leaves, at the end of its write, job.json with the exit code of
\* the process and the status that goes with it.
C24_FinalizerResult ==
    /\ [](\A j \in JobIds : RecordConsistent(load_json(metaFile[j])))
    /\ [][\A j \in JobIds : FinalizerPersists(j)]_vars

\* ---- claims about the ticks of a stream

\* The connection has ended with a done event.
EndedWithDone(c) ==
    /\ gw[c].pc = "closed"
    /\ gw[c].events # <<>>
    /\ gw[c].events[Len(gw[c].events)].event = "done"

\* The connection has ended without one: the client has gone.
ClientGone(c) == gw[c].pc = "closed" /\ ~EndedWithDone(c)

\* C25: where no cancel is called a terminal status in job.json stays, and
\* the output of a job is finite; a stream of a job whose job.json holds a
\* terminal status eventually emits done and ends, unless the client goes.
C25_StreamEnds ==
    /\ [][\A j \in SpecJobs :
             IsTerminal(PersistedStatus(j))
                 => PersistedStatus(j)' = PersistedStatus(j)]_vars
    /\ \A c \in StreamConns : \A j \in SpecJobs :
           (gw[c].job = j /\ IsTerminal(PersistedStatus(j)))
               ~> (EndedWithDone(c) \/ ClientGone(c))

\* C25 witness: a stream has ended with done after the whole grace period
\* and after it had emitted a log event.
C25_Witness ==
    \E c \in StreamConns :
        /\ EndedWithDone(c)
        /\ gw[c].terminal_ticks = GraceTicks
        /\ LinesOf(gw[c].events) # <<>>

\* ---- claims about the first events of a stream

\* The events of the connection before its first log event (all of them if
\* it has emitted none).
RECURSIVE BeforeFirstLog(_)
BeforeFirstLog(events) ==
    IF events = <<>> \/ Head(events).event = "log" THEN <<>>
    ELSE <<Head(events)>> \o BeforeFirstLog(Tail(events))

\* The step that emits the first event of connection c: the event is the
\* status event of the job.json read in this step, and the queue of c was
\* registered with the hub before the step.
FirstEventStep(c) ==
    (gw[c].events = <<>> /\ gw'[c].events # <<>>) =>
        /\ qState[c] = "subscribed"
        /\ SeqHas(hubSubscribers[gw[c].job], c)
        /\ gw'[c].events = <<StatusEvent(load_json(metaFile[gw[c].job]))>>

\* The events of c so far begin with the one status event, followed at once
\* by the log events of the replay.
StartsWithStatusThenReplay(c) ==
    LET ev == gw[c].events
        n  == Len(gw[c].buffered_lines)
    IN  /\ ev # <<>> => ev[1].event = "status"
        /\ gw[c].pc \in {"drain", "status"} =>
              /\ Len(ev) >= 1 + n
              /\ \A i \in 2..(1 + n) : ev[i].event = "log"

\* C26 as stated: before the first log event of a stream there is exactly
\* one status event.
C26_OneStatusBeforeFirstLog ==
    \A c \in StreamConns :
        LinesOf(gw[c].events) # <<>> => Len(BeforeFirstLog(gw[c].events)) = 1

\* C26 as amended: the queue of a stream is registered before the job.json
\* read whose status is its first event; every line published before the
\* registration and not evicted is in the replay snapshot and every later
\* one was put on the queue unless the queue was full; the first event is
\* that status event and the replay follows it at once (further status
\* events may precede the first log event when the replay is empty).
C26_SubscribeBeforeStatus ==
    /\ [](\A c \in StreamConns :
             /\ StartsWithStatusThenReplay(c)
             /\ qState[c] = "subscribed" => HubGapFree(c))
    /\ [][\A c \in StreamConns : FirstEventStep(c)]_vars

\* C26 witness: a stream that began with a status event, replayed a line of
\* the snapshot and then emitted a line that was published after it had
\* subscribed.
C26_Witness ==
    \E c \in StreamConns :
        /\ Len(gw[c].events) >= 3
        /\ gw[c].events[1].event = "status"
        /\ gw[c].buffered_lines # <<>>
        /\ gw[c].events[2].event = "log"
        /\ hist.delivered[c] # <<>>
        /\ Len(LinesOf(gw[c].events)) > Len(gw[c].buffered_lines)

\* ---- claims about the status events of a stream

\* The statuses of the status events of a connection, in order.
RECURSIVE StatusesOf(_)
StatusesOf(events) ==
    IF events = <<>> THEN <<>>
    ELSE (IF Head(events).event = "status" THEN <<Head(events).status>>
          ELSE <<>>)
         \o StatusesOf(Tail(events))

\* A step of c that ends a tick after its read of job.json (and not the
\* client going away in that position).
StatusTick(c) ==
    /\ gw[c].pc = "status"
    /\ gw'[c].pc = "drain" \/ gw'[c].events # gw[c].events

\* What a step of the loop may add to the status events of c: in a tick
\* the status read from job.json if it is not the status of the last status
\* event, and nothing otherwise.
StatusEventIffChanged(c) ==
    LET old  == StatusesOf(gw[c].events)
        new  == StatusesOf(gw'[c].events)
        read == StatusEvent(load_json(metaFile[gw[c].job])).status
    IN  old # <<>> =>
            IF StatusTick(c) /\ read # old[Len(old)]
            THEN new = Append(old, read)
            ELSE new = old

\* C27: after its first status event a stream emits a status event in a
\* tick if and only if the status read in that tick differs from the status
\* of the last status event; no two consecutive status events of a stream
\* carry the same status.
C27_StatusOnChange ==
    /\ [](\A c \in StreamConns :
             LET s == StatusesOf(gw[c].events)
             IN  \A i \in 1..(Len(s) - 1) : s[i] # s[i + 1])
    /\ [][\A c \in StreamConns : StatusEventIffChanged(c)]_vars

\* C27 witness: a stream that has emitted three status events and ended
\* some tick after the last of them.
C27_Witness ==
    \E c \in StreamConns :
        /\ Len(StatusesOf(gw[c].events)) = 3
        /\ EndedWithDone(c)
        /\ gw[c].terminal_ticks = GraceTicks

\* ---- claims about termination by cancel

\* The last cancel call of job j loaded a record that was not terminal.
LastCancelWasLive(rets) ==
    rets # <<>> /\ ~IsTerminal(rets[Len(rets)].loaded)

\* What a step may do to job j on behalf of a cancel call that found the job
\* not terminal: the call neither raises nor returns False, the end of its
\* write leaves job.json with status canceled and a finished_at, and one
\* SIGTERM at most is sent, in the step of terminate_process_group.
CancelStepSwallows(j) ==
    /\ LastCancelWasLive(cancelRets'[j]) =>
           cancelRets'[j][Len(cancelRets'[j])].ret \in {"pending", "true"}
    /\ (cancelPc[j] = "replace" /\ cancelPc'[j] # "replace") =>
           /\ load_json(metaFile'[j]) # NoMeta
           /\ load_json(metaFile'[j]).status = "canceled"
           /\ load_json(metaFile'[j]).finished_at # None
    /\ sigterms'[j] # sigterms[j] =>
           /\ cancelPc[j] = "term"
           /\ sigterms'[j] = sigterms[j] + 1

\* C28: a cancel of a job that is not terminal returns True and persists
\* canceled with a finished_at, whether or not there is a process to signal;
\* it signals once at most, and its next step never waits for the process.
C28_CancelSwallowsFailures ==
    /\ [](\A j \in SpecJobs : cancelPc[j] # "idle" => ENABLED CancelRun(j))
    /\ [][\A j \in SpecJobs : CancelStepSwallows(j)]_vars

\* ---- claims about the keep-alive comments

\* C29 as stated: a keep-alive is emitted only after about 10 seconds without
\* an event of any kind; a stream that emitted a log or status event less
\* than 10 seconds ago emits none.
C29_HeartbeatAfterSilence ==
    beat.beats > 0 => beat.quiet >= HeartbeatSeconds

\* C29 as amended: a keep-alive is emitted only in a tick at which 10
\* seconds or more have passed since the keep-alive before it, or since the
\* start of the stream for the first; log and status events do not put it
\* off.
C29_HeartbeatCadence ==
    beat.beats > 0 => beat.since >= HeartbeatSeconds

\* C29 witness: a second keep-alive, emitted in a tick that had just
\* yielded another event.
C29_Witness ==
    /\ beat.beats >= 2
    /\ beat.quiet = 0
    /\ beat.since >= HeartbeatSeconds

\* ---- claims about the chunks of the reader

\* C30: the lines the reader emits for an output, and the lines and the
\* remainder its loop arrives at, are the same for every division of the
\* output into read chunks as for the output read in one chunk.
C30_ChunkIndependent ==
    fn.op = "reader" =>
        /\ fn.result.emits = fn.result.emits_whole
        /\ fn.result.chunked = fn.result.whole

\* ---- claims about unsubscribe

\* A step that is a call unsubscribe(j, q): q is gone from the list of j and
\* the other queues of j keep their places; the lists of the other jobs, the
\* replay buffers and the contents of every queue, q's included, stay; a
\* call for a queue that is not in the list of j changes nothing in the hub.
UnsubscribeFrame(j, q) ==
    (fn' # fn /\ fn'.op = "unsubscribe" /\ fn'.args = <<j, q>>) =>
        /\ ~SeqHas(hubSubscribers'[j], q)
        /\ hubSubscribers'[j] = SelectSeq(hubSubscribers[j], LAMBDA s : s # q)
        /\ \A k \in JobIds \ {j} : hubSubscribers'[k] = hubSubscribers[k]
        /\ UNCHANGED <<hubBuffers, queues>>
        /\ fn'.result = None
        /\ ~SeqHas(hubSubscribers[j], q) => UNCHANGED hubVars

\* C31: unsubscribe(job, q) removes exactly q from the subscriber list of
\* the job and leaves every other queue of any job, every replay buffer and
\* the contents of q as they are; a second call, and a call for a queue or
\* job never subscribed, changes nothing and raises nothing.
C31_UnsubscribeFrame ==
    [][\A j \in JobIds, q \in QueueIds : UnsubscribeFrame(j, q)]_vars

\* C31 witness: the last call took q off the list of a job that has another
\* subscriber, which is still there, and q still holds a line.
C31_Witness ==
    \E q \in QueueIds :
        /\ fn.op = "unsubscribe"
        /\ fn.args = <<hist.job[q], q>>
        /\ qState[q] = "unsubscribed"
        /\ queues[q] # <<>>
        /\ hubSubscribers[hist.job[q]] # <<>>

\* ---- claims about mask_secrets as a function

\* C32: with secrets A and B, A a proper substring of B, and a text that
\* contains B once, the result is the masked text before B, one mask marker
\* in place of B, and the masked text after B: nothing of B is left beside
\* the marker and the marker is not replaced again.
C32_LongestFirst ==
    (fn.op = "mask_secrets" /\ Len(fn.args[2]) = 2) =>
        LET text == fn.args[1]
            B    == fn.args[2][2]
            occ  == {i \in 1..Len(text) : OccursAt(text, B, i)}
        IN  Cardinality(occ) = 1 =>
              LET i    == CHOOSE k \in occ : TRUE
                  pre  == SubSeq(text, 1, i - 1)
                  post == SubSeq(text, i + Len(B), Len(text))
              IN  \A r \in fn.result :
                      \E x \in mask_secrets(pre, fn.args[2]),
                         y \in mask_secrets(post, fn.args[2]) :
                          r = x \o MASK \o y


\* A maximal run of token characters of text from i to e that the token
\* pattern matches: TokenMinLen characters or more, a letter and a digit.
IsTokenRun(text, i, e) ==
    /\ i <= e
    /\ \A n \in i..e : IsTokenChar(text[n])
    /\ i = 1 \/ ~IsTokenChar(text[i - 1])
    /\ e = Len(text) \/ ~IsTokenChar(text[e + 1])
    /\ e - i + 1 >= TokenMinLen
    /\ \E n \in i..e : IsLetter(text[n])
    /\ \E n \in i..e : text[n] \in DigitSet

TokenRunsOf(text) ==
    LET starts == {i \in 1..Len(text) :
                     IsTokenChar(text[i]) /\ (i = 1 \/ ~IsTokenChar(text[i - 1]))}
        ends   == {e \in 1..Len(text) :
                     IsTokenChar(text[e]) /\ (e = Len(text) \/ ~IsTokenChar(text[e + 1]))}
    IN  {p \in starts \X ends : IsTokenRun(text, p[1], p[2])}

\* The number of characters of text inside the runs.
RunChars(runs) ==
    Cardinality(UNION {p[1]..p[2] : p \in runs})

\* The characters of a text that are no token characters and no asterisks.
Separators(text) ==
    SelectSeq(text, LAMBDA c : ~IsTokenChar(c) /\ c # "*")

Asterisks(text) == Len(SelectSeq(text, LAMBDA c : c = "*"))

\* C33 as stated: with no secret, no PEM block and no key-value pair in the
\* text, mask_secrets changes the text only when the whole of it is
\* JWT-shaped or one token run.
C33_WholeStringTokenRule ==
    (fn.op = "mask_secrets" /\ fn.args[2] = <<>>) =>
        LET text == fn.args[1]
        IN  \A r \in fn.result :
                r # text => \/ JwtValueMatch(text)
                            \/ IsTokenRun(text, 1, Len(text))

\* C33 as amended: a text that is JWT-shaped as a whole becomes one mask
\* marker; in any other text every token run, wherever it stands, becomes one
\* mask marker and nothing else changes, so the text is unchanged exactly when
\* it has no token run.
C33_TokenRunsAnywhere ==
    (fn.op = "mask_secrets" /\ fn.args[2] = <<>>) =>
        LET text == fn.args[1]
            runs == TokenRunsOf(text)
        IN  \A r \in fn.result :
                IF JwtValueMatch(text) THEN r = MASK
                ELSE /\ (r = text) <=> (runs = {})
                     /\ TokenRunsOf(r) = {}
                     /\ Separators(r) = Separators(text)
                     /\ Asterisks(r) = Asterisks(text) + Len(MASK) * Cardinality(runs)
                     /\ Len(r) = Len(text) - RunChars(runs)
                                   + Len(MASK) * Cardinality(runs)

\* A token run inside a longer line has been replaced by a mask marker.
C33_Witness ==
    /\ fn.op = "mask_secrets" /\ fn.args[2] = <<>>
    /\ ~JwtValueMatch(fn.args[1])
    /\ ~IsTokenRun(fn.args[1], 1, Len(fn.args[1]))
    /\ TokenRunsOf(fn.args[1]) # {}
    /\ \A r \in fn.result : r # fn.args[1] /\ Asterisks(r) = Len(MASK)


\* C34: while cancel and the finalizer write the metadata record of a job at
\* the same time, job.json, once written, is at every moment one complete
\* record; neither write raises; and no cancel call returns False for the
\* job.
C34_ConcurrentWritesSafe ==
    \A j \in JobIds :
        /\ statusLog[j] # <<>> =>
              /\ metaFile[j].kind = "json"
              /\ \A i \in 1..Len(cancelRets[j]) : cancelRets[j][i].ret # "false"
        /\ \A i \in 1..Len(cancelRets[j]) : cancelRets[j][i].ret # "raised"
        /\ finPc[j] = "raised" => finErr[j]


\* C35: once create has raised after writing the queued record, and no
\* cancel has been called for the job, job.json holds status failed, the
\* secret store has no entry for the job and id_rsa is gone.
C35_FailedCreateCleansUp ==
    \A j \in JobIds :
        (/\ createPc[j] \in {"config_error", "launch_failed"}
         /\ cancelPc[j] = "idle" /\ cancelRets[j] = <<>>)
            => /\ PersistedStatus(j) = "failed"
               /\ secretStore[j] = <<>>
               /\ ~keyFile[j]


\* C36: the reader thread never fails on a write to job.log that the
\* finalizer has closed, so no line it has read is lost.
C36_NoOutputLost ==
    \A j \in SpecJobs : rd[j].pc # "raised"


\* ---- claims about concurrent publishers

\* The position of a line in calls, which is the order in which the lines
\* were appended to the replay buffer.
CallOf(line) == CHOOSE i \in 1..Len(calls) : calls[i].line = line

\* C37 as stated: every queue has received its lines in the order in which
\* the concurrent publish calls appended them to the replay buffer.
C37_BufferOrder ==
    \A q \in QueueIds :
        \A a, b \in 1..Len(hist.delivered[q]) :
            a < b => CallOf(hist.delivered[q][a]) < CallOf(hist.delivered[q][b])

\* C37 as amended: a queue receives two lines in the order of the replay
\* buffer whenever the publish call of the first had returned before the
\* call of the second began; only lines of calls that overlap can arrive in
\* the other order.
C37_OrderOfSeparateCalls ==
    \A q \in QueueIds :
        \A a, b \in 1..Len(hist.delivered[q]) :
            LET x == CallOf(hist.delivered[q][a])
                y == CallOf(hist.delivered[q][b])
            IN  (a < b /\ y < x) => y \in calls[x].during

\* A queue has received, in their order, the lines of two calls that did
\* not overlap, while some other call did overlap with one of them.
C37_Witness ==
    /\ \E i \in 1..Len(calls) : calls[i].during # {}
    /\ \E q \in QueueIds :
           \E a, b \in 1..Len(hist.delivered[q]) :
               LET x == CallOf(hist.delivered[q][a])
                   y == CallOf(hist.delivered[q][b])
               IN  a < b /\ x < y /\ x \notin calls[y].during


\* C38, for one secret or none: masking a result of mask_secrets once more,
\* with the same secrets or with none, gives that result again.
C38_MaskIdempotent ==
    (fn.op = "mask_secrets" /\ Len(fn.args[2]) <= 1) =>
        \A r \in fn.result :
            \A secrets \in {<<>>, fn.args[2]} : mask_secrets(r, secrets) = {r}

=============================================================================
